---- MODULE Spec2Model ----
(***************************************************************************)
(* Kizuna storage engine: the disk-resident B+ tree (BPlusTree,            *)
(* BPlusTreeNode) and the DML executor that keeps a table heap and its     *)
(* indexes in step.                                                        *)
(*                                                                         *)
(* A tree is a record [pages, root_page_id, unique_]: pages is the index   *)
(* file's page store (page id = position), each page holding the node that *)
(* BPlusTreeNode::Deserialize would read from it, or a page that does not  *)
(* deserialize (type "CORRUPT": fresh from new_page, or zeroed by a        *)
(* Serialize call that threw after page.init/memset).                      *)
(*                                                                         *)
(* Sizes are scaled: the code splits a node on BTREE_MAX_KEYS (256) and    *)
(* serializes it into a 4096-byte page; here a node splits above           *)
(* BTREE_MAX_KEYS = 2 keys and has NODE_BODY_BYTES bytes for its values or *)
(* children, its offsets and its keys.  The per-entry byte costs           *)
(* (record_id_t 8, page_id_t 4, uint16_t 2) are the code's.                *)
(***************************************************************************)
EXTENDS Integers, Sequences, FiniteSets, TLC

VARIABLES tree, ref, last, nops, removed, heap, indexes, done, nstmts,
          pm, catalog, trees, ddl, nddl

vars ==
    <<tree, ref, last, nops, removed, heap, indexes, done, nstmts,
      pm, catalog, trees, ddl, nddl>>

treeVars == <<tree, ref, last, nops, removed>>

sqlVars == <<heap, indexes, done, nstmts>>

ddlVars == <<pm, catalog, trees, ddl, nddl>>

(***************************************************************************)
(* Bounds of the model and constants of the program                        *)
(***************************************************************************)
INVALID_PAGE_ID == 0

\* config::BTREE_MAX_KEYS, scaled (256 in the code)
BTREE_MAX_KEYS == 2

\* config::MAX_KEY_LENGTH, scaled
MAX_KEY_LENGTH == 13

\* kPageSize - kPageHeaderSize - HeaderSize(): bytes of a page left for the
\* node body, scaled
NODE_BODY_BYTES == 48

\* record ids handed to the tree API are drawn from 1..MaxValue
MaxValue == 2

\* number of Insert/Remove calls explored on one tree
MaxOps == 5

\* bytes of a heap page after its header, scaled: two full rows fit
HEAP_BODY_BYTES == 48

\* sizeof(SlotEntry): offset, length and tombstone flag of one slot
SLOT_ENTRY_BYTES == 6

\* the at-rest type tag of an INTEGER field
TYPE_TAG_INTEGER == 2

\* primary-key literals are drawn from 1..MaxId, literals of column a from
\* 1..MaxA, each with NULL
MaxId == 3

MaxA == 1

\* number of SQL statements explored on one table
MaxStmts == 3

(***************************************************************************)
(* Keys                                                                    *)
(***************************************************************************)
Min(a, b) == IF a < b THEN a ELSE b

\* the least element of a set of positions, or none when the set is empty
FirstIn(positions, none) ==
    IF positions = {} THEN none ELSE CHOOSE i \in positions : \A j \in positions : i <= j

\* the first position at which two keys differ within their common prefix
\* (0 when one is a prefix of the other): what memcmp stops at
FirstDiff(lhs, rhs) ==
    FirstIn({i \in 1..Min(Len(lhs), Len(rhs)) : lhs[i] # rhs[i]}, 0)

\* the result of CompareKeys once memcmp stopped at position i
CompareAt(lhs, rhs, i) ==
    IF i # 0 THEN (IF lhs[i] < rhs[i] THEN -1 ELSE 1)
    ELSE IF Len(lhs) < Len(rhs) THEN -1
    ELSE IF Len(lhs) > Len(rhs) THEN 1
    ELSE 0

\* BPlusTree::CompareKeys: memcmp over the common prefix, then the lengths
CompareKeys(lhs, rhs) == CompareAt(lhs, rhs, FirstDiff(lhs, rhs))

\* a key of MAX_KEY_LENGTH bytes, all equal to b
LongKey(b) == [i \in 1..MAX_KEY_LENGTH |-> b]

\* the keys handed to the tree API: short keys (prefixes of one another
\* included) and keys of the maximal length
Keys == {<<>>, <<1>>, <<1, 1>>, <<2>>, LongKey(1), LongKey(2)}

Values == 1..MaxValue

(***************************************************************************)
(* Nodes and pages                                                         *)
(***************************************************************************)
\* BPlusTreeNode::MakeLeaf
MakeLeaf(page_id) ==
    [type |-> "LEAF", page_id |-> page_id, parent_page_id |-> INVALID_PAGE_ID,
     next_leaf |-> INVALID_PAGE_ID, prev_leaf |-> INVALID_PAGE_ID,
     leaf_entries |-> <<>>, internal_entries |-> <<>>, children |-> <<>>]

\* BPlusTreeNode::MakeInternal
MakeInternal(page_id) ==
    [type |-> "INTERNAL", page_id |-> page_id, parent_page_id |-> INVALID_PAGE_ID,
     next_leaf |-> INVALID_PAGE_ID, prev_leaf |-> INVALID_PAGE_ID,
     leaf_entries |-> <<>>, internal_entries |-> <<>>, children |-> <<>>]

\* a page whose node header does not carry kNodeMagic: ReadHeader throws
\* INVALID_RECORD_FORMAT on it
CorruptPage(page_id) ==
    [type |-> "CORRUPT", page_id |-> page_id, parent_page_id |-> INVALID_PAGE_ID,
     next_leaf |-> INVALID_PAGE_ID, prev_leaf |-> INVALID_PAGE_ID,
     leaf_entries |-> <<>>, internal_entries |-> <<>>, children |-> <<>>]

\* BPlusTreeNode::key_count
key_count(node) ==
    IF node.type = "LEAF" THEN Len(node.leaf_entries) ELSE Len(node.internal_entries)

NodeKeys(node) ==
    IF node.type = "LEAF"
    THEN [i \in 1..Len(node.leaf_entries) |-> node.leaf_entries[i].key]
    ELSE [i \in 1..Len(node.internal_entries) |-> node.internal_entries[i].key]

RECURSIVE KeyAreaBytes(_)
\* bytes of the key area: each key is stored as a u16 length and its bytes
KeyAreaBytes(keys) ==
    IF keys = <<>> THEN 0
    ELSE Len(Head(keys)) + 2 + KeyAreaBytes(Tail(keys))

\* the checks of BPlusTreeNode::Serialize on a node of `keys` keys whose value
\* (or child) array and offset array end at byte `pos` of the body
SerializeChecks(node, keys, pos) ==
    IF node.page_id = INVALID_PAGE_ID THEN "INVALID_ARGUMENT"
    ELSE IF keys > BTREE_MAX_KEYS THEN "INVALID_ARGUMENT"
    ELSE IF node.type = "INTERNAL" /\ Len(node.children) # keys + 1
         THEN "INVALID_ARGUMENT"
    ELSE IF \E i \in 1..keys : Len(NodeKeys(node)[i]) > MAX_KEY_LENGTH
         THEN "INVALID_ARGUMENT"
    ELSE IF pos + KeyAreaBytes(NodeKeys(node)) > NODE_BODY_BYTES
         THEN "RECORD_TOO_LARGE"
    ELSE "OK"

\* BPlusTreeNode::Serialize: the status it ends with ("OK" when it returns)
SerializeStatus(node) ==
    SerializeChecks(node, key_count(node),
                    (IF node.type = "LEAF" THEN key_count(node) * 8
                     ELSE Len(node.children) * 4) + key_count(node) * 2)

\* BPlusTreeNode::Deserialize of a serialized node: an internal entry's child
\* is read back from the child array
Deserialize(node) ==
    IF node.type = "INTERNAL"
    THEN [node EXCEPT !.internal_entries =
            [i \in 1..Len(node.internal_entries) |->
                [key |-> node.internal_entries[i].key, child |-> node.children[i + 1]]]]
    ELSE node

\* what Serialize leaves in the page: it re-initialises and zeroes the page
\* first, so when it throws the page no longer deserializes
WritePage(st, node, status) ==
    IF status = "OK"
    THEN [st EXCEPT !.pages[node.page_id] = Deserialize(node)]
    ELSE [pages |-> [st.pages EXCEPT ![node.page_id] = CorruptPage(node.page_id)],
          err |-> status]

\* BPlusTree::StoreNode on a store st = [pages, err]; once err is set the
\* exception is on its way up and nothing more is stored
StoreNode(st, node) ==
    IF st.err # "OK" THEN st ELSE WritePage(st, node, SerializeStatus(node))

\* PageManager::new_page(PageType::INDEX): a fresh page, not yet a node
NewPage(pages) == Append(pages, CorruptPage(Len(pages) + 1))

InsertAt(seq, pos, x) ==
    SubSeq(seq, 1, pos - 1) \o <<x>> \o SubSeq(seq, pos, Len(seq))

RemoveAt(seq, pos) ==
    SubSeq(seq, 1, pos - 1) \o SubSeq(seq, pos + 1, Len(seq))

\* BPlusTree::FindLeafIndex (1-based: the first entry whose key is not less)
FindLeafIndex(leaf, key) ==
    FirstIn({i \in 1..Len(leaf.leaf_entries) :
                ~(CompareKeys(leaf.leaf_entries[i].key, key) < 0)},
            Len(leaf.leaf_entries) + 1)

\* FindInternalChild stopping at a separator equal to the key: the descent
\* then takes the child to the left of the leaf that holds the key
FindInternalChildStopsAtEqual(node, key) ==
    FirstIn({i \in 1..Len(node.internal_entries) :
                ~(CompareKeys(node.internal_entries[i].key, key) < 0)},
            Len(node.internal_entries) + 1)

\* BPlusTree::FindInternalChild (1-based position in children)
FindInternalChild(node, key) ==
    FirstIn({i \in 1..Len(node.internal_entries) :
                ~(CompareKeys(node.internal_entries[i].key, key) <= 0)},
            Len(node.internal_entries) + 1)

\* whether the leaf holds key at position idx
KeyAt(node, idx, key) ==
    idx <= Len(node.leaf_entries) /\ CompareKeys(node.leaf_entries[idx].key, key) = 0

(***************************************************************************)
(* BPlusTree::Insert                                                       *)
(***************************************************************************)
\* what InsertRecursive hands back: the page store, the status it ended with
\* and the out-parameters out_promoted_key / out_new_child
InsertResult(pages, err, promoted, promoted_key, new_child) ==
    [pages |-> pages, err |-> err, promoted |-> promoted,
     promoted_key |-> promoted_key, new_child |-> new_child]

\* InsertRecursive returning (or throwing) without a promotion
Stable(st) == InsertResult(st.pages, st.err, FALSE, <<>>, INVALID_PAGE_ID)

\* InsertRecursive returning after a split, unless a store threw
Promotion(st, promoted_key, new_child) ==
    InsertResult(st.pages, st.err, st.err = "OK", promoted_key, new_child)

\* a fresh store over the given pages
Store(pages) == [pages |-> pages, err |-> "OK"]

\* BPlusTree::LoadNode followed by set_parent and StoreNode, as the split and
\* root-growth paths do for a child
Reparent(st, child_id, parent_id) ==
    IF st.err # "OK" THEN st
    ELSE IF st.pages[child_id].type = "CORRUPT"
         THEN [st EXCEPT !.err = "INVALID_RECORD_FORMAT"]
    ELSE StoreNode(st, [st.pages[child_id] EXCEPT !.parent_page_id = parent_id])

RECURSIVE ReparentAll(_, _, _)
\* the loop over new_internal.children() in InsertRecursive
ReparentAll(st, child_ids, parent_id) ==
    IF child_ids = <<>> THEN st
    ELSE ReparentAll(Reparent(st, Head(child_ids), parent_id), Tail(child_ids), parent_id)

\* BPlusTree::SplitLeaf: [node, new_node, promoted_key]
SplitLeaf(node, new_node) ==
    [node |-> [node EXCEPT !.leaf_entries =
                  SubSeq(node.leaf_entries, 1, Len(node.leaf_entries) \div 2)],
     new_node |-> [new_node EXCEPT !.leaf_entries =
                  SubSeq(node.leaf_entries, Len(node.leaf_entries) \div 2 + 1,
                         Len(node.leaf_entries))],
     promoted_key |-> node.leaf_entries[Len(node.leaf_entries) \div 2 + 1].key]

\* the right half SplitInternal hands to new_node: entries after the pivot,
\* each with its child read from the child array
RightHalf(new_node, right_entries, right_children) ==
    [new_node EXCEPT
        !.internal_entries =
            [i \in 1..Len(right_entries) |->
                [key |-> right_entries[i].key, child |-> right_children[i + 1]]],
        !.children = right_children]

\* BPlusTree::SplitInternal at split_point (0-based position of the pivot):
\* the pivot moves up, it is not copied
SplitInternalAt(node, new_node, split_point) ==
    [node |-> [node EXCEPT
                 !.internal_entries = SubSeq(node.internal_entries, 1, split_point),
                 !.children = SubSeq(node.children, 1, split_point + 1)],
     new_node |-> RightHalf(new_node,
                            SubSeq(node.internal_entries, split_point + 2,
                                   Len(node.internal_entries)),
                            SubSeq(node.children, split_point + 2, Len(node.children))),
     promoted_key |-> node.internal_entries[split_point + 1].key]

\* BPlusTree::SplitInternal: [node, new_node, promoted_key]
SplitInternal(node, new_node) ==
    SplitInternalAt(node, new_node, Len(node.internal_entries) \div 2)

\* the leaf after new_leaf, if any, gets new_leaf as its prev
RelinkNext(st, next_id, new_id) ==
    IF next_id = INVALID_PAGE_ID THEN st
    ELSE IF st.pages[next_id].type = "CORRUPT"
         THEN [st EXCEPT !.err = "INVALID_RECORD_FORMAT"]
    ELSE StoreNode(st, [st.pages[next_id] EXCEPT !.prev_leaf = new_id])

\* InsertRecursive, the leaf split once SplitLeaf has divided the entries:
\* link the leaves, then store next, node and new_leaf in that order
StoreSplitLeaf(pages, node, sp, new_id) ==
    Promotion(
        StoreNode(
            StoreNode(RelinkNext(Store(NewPage(pages)), node.next_leaf, new_id),
                      [sp.node EXCEPT !.next_leaf = new_id]),
            [sp.new_node EXCEPT !.next_leaf = node.next_leaf,
                                !.prev_leaf = node.page_id]),
        sp.promoted_key, new_id)

\* InsertRecursive, the leaf branch after the entry went in: split above
\* BTREE_MAX_KEYS entries, else store the leaf
PlaceLeaf(pages, node, grown) ==
    IF Len(grown.leaf_entries) > BTREE_MAX_KEYS
    THEN StoreSplitLeaf(pages, node,
                        SplitLeaf(grown, [MakeLeaf(Len(pages) + 1) EXCEPT
                                            !.parent_page_id = node.parent_page_id]),
                        Len(pages) + 1)
    ELSE Stable(StoreNode(Store(pages), grown))

\* InsertRecursive, the leaf branch with idx = FindLeafIndex(node, key)
InsertIntoLeafAt(pages, node, key, value, unique, idx) ==
    IF KeyAt(node, idx, key)
    THEN IF unique
         THEN Stable([pages |-> pages, err |-> "DUPLICATE_KEY"])
         ELSE Stable(StoreNode(Store(pages), [node EXCEPT !.leaf_entries[idx].value = value]))
    ELSE PlaceLeaf(pages, node,
                   [node EXCEPT !.leaf_entries =
                        InsertAt(@, idx, [key |-> key, value |-> value])])

\* InsertRecursive, the leaf branch
InsertIntoLeaf(pages, node, key, value, unique) ==
    InsertIntoLeafAt(pages, node, key, value, unique, FindLeafIndex(node, key))

\* InsertRecursive, the internal split once SplitInternal has divided the
\* entries: reparent the children that moved, store node, store new_internal
StoreSplitInternal(pages, sp, new_id) ==
    Promotion(
        StoreNode(
            StoreNode(ReparentAll(Store(NewPage(pages)), sp.new_node.children, new_id),
                      sp.node),
            sp.new_node),
        sp.promoted_key, new_id)

\* InsertRecursive, the internal branch after the promoted entry went in
PlaceInternal(pages, node, grown) ==
    IF Len(grown.internal_entries) > BTREE_MAX_KEYS
    THEN StoreSplitInternal(pages,
                            SplitInternal(grown, [MakeInternal(Len(pages) + 1) EXCEPT
                                                    !.parent_page_id = node.parent_page_id]),
                            Len(pages) + 1)
    ELSE Stable(StoreNode(Store(pages), grown))

\* InsertRecursive, the internal branch after the child returned a promotion
InsertIntoInternal(pages, node, child_index, promoted_key, promoted_child) ==
    PlaceInternal(pages, node,
                  [node EXCEPT
                     !.internal_entries = InsertAt(@, child_index,
                                             [key |-> promoted_key, child |-> promoted_child]),
                     !.children = InsertAt(@, child_index + 1, promoted_child)])

\* InsertRecursive, the internal branch once the call on the child is back
\* with r
AfterChild(node, child_index, r) ==
    IF r.err # "OK" THEN r
    ELSE IF ~r.promoted THEN Stable(StoreNode(Store(r.pages), node))
    ELSE InsertIntoInternal(r.pages, node, child_index, r.promoted_key, r.new_child)

RECURSIVE InsertRecursive(_, _, _, _, _)
\* InsertRecursive, the internal branch with child_index =
\* FindInternalChild(node, key)
InsertBelow(pages, node, child_index, key, value, unique) ==
    AfterChild(node, child_index,
               InsertRecursive(pages, node.children[child_index], key, value, unique))

\* BPlusTree::InsertRecursive
InsertRecursive(pages, page_id, key, value, unique) ==
    IF pages[page_id].type = "CORRUPT"
    THEN Stable([pages |-> pages, err |-> "INVALID_RECORD_FORMAT"])
    ELSE IF pages[page_id].type = "LEAF"
    THEN InsertIntoLeaf(pages, pages[page_id], key, value, unique)
    ELSE InsertBelow(pages, pages[page_id], FindInternalChild(pages[page_id], key),
                     key, value, unique)

\* BPlusTree::Insert, the new root over the old root and the promoted child:
\* reparent both, store the root, and only then move root_page_id_
GrowRoot(t, st, new_root_page) ==
    [tree |-> [t EXCEPT !.pages = st.pages,
                        !.root_page_id = IF st.err = "OK" THEN new_root_page ELSE @],
     status |-> st.err]

\* BPlusTree::Insert once InsertRecursive is back with r
AfterInsertRecursive(t, r) ==
    IF r.err # "OK" \/ ~r.promoted
    THEN [tree |-> [t EXCEPT !.pages = r.pages], status |-> r.err]
    ELSE GrowRoot(t,
                  StoreNode(
                      Reparent(Reparent(Store(NewPage(r.pages)),
                                        t.root_page_id, Len(r.pages) + 1),
                               r.new_child, Len(r.pages) + 1),
                      [MakeInternal(Len(r.pages) + 1) EXCEPT
                          !.children = <<t.root_page_id, r.new_child>>,
                          !.internal_entries =
                              <<[key |-> r.promoted_key, child |-> r.new_child]>>]),
                  Len(r.pages) + 1)

\* BPlusTree::Insert: [tree, status]
Insert(t, key, value) ==
    AfterInsertRecursive(t, InsertRecursive(t.pages, t.root_page_id, key, value, t.unique_))

\* BPlusTree::BPlusTree with root_page_id == INVALID_PAGE_ID: an empty leaf root
NewTree(unique) ==
    [pages |-> <<MakeLeaf(1)>>, root_page_id |-> 1, unique_ |-> unique]

(***************************************************************************)
(* BPlusTree::Search, Remove, ScanRange, ScanEqual                         *)
(***************************************************************************)
\* Search in the leaf, with idx = FindLeafIndex(node, key)
SearchLeafAt(node, key, idx) ==
    IF KeyAt(node, idx, key)
    THEN [status |-> "OK", found |-> TRUE, value |-> node.leaf_entries[idx].value]
    ELSE [status |-> "OK", found |-> FALSE, value |-> 0]

RECURSIVE SearchFrom(_, _, _)
\* the descent of Search from page `current`
SearchFrom(pages, current, key) ==
    IF pages[current].type = "CORRUPT"
    THEN [status |-> "INVALID_RECORD_FORMAT", found |-> FALSE, value |-> 0]
    ELSE IF pages[current].type = "LEAF"
    THEN SearchLeafAt(pages[current], key, FindLeafIndex(pages[current], key))
    ELSE SearchFrom(pages,
                    pages[current].children[FindInternalChild(pages[current], key)], key)

\* BPlusTree::Search: [status, found, value]
Search(t, key) == SearchFrom(t.pages, t.root_page_id, key)

\* the scan of the leaf in Remove without the test on the value: the first
\* entry equal to key, whatever it points to
RemovePositionAnyValue(node, key, value) ==
    FirstIn({i \in {FindLeafIndex(node, key)} : KeyAt(node, i, key)}, 0)

\* the scan of the leaf in Remove: the first position at or after
\* FindLeafIndex, among the entries equal to key, whose value is the caller's
\* (0 when there is none)
RemovePosition(node, key, value) ==
    FirstIn({i \in FindLeafIndex(node, key)..Len(node.leaf_entries) :
                /\ \A j \in FindLeafIndex(node, key)..i :
                      CompareKeys(node.leaf_entries[j].key, key) = 0
                /\ node.leaf_entries[i].value = value},
            0)

\* Remove in the leaf: erase the entry at pos and store the leaf, or leave the
\* leaf alone when no entry matched
RemoveAtPosition(pages, node, pos) ==
    IF pos = 0 THEN Store(pages)
    ELSE StoreNode(Store(pages), [node EXCEPT !.leaf_entries = RemoveAt(@, pos)])

RECURSIVE RemoveFrom(_, _, _, _)
\* the descent of Remove from page `current`: [pages, err]
RemoveFrom(pages, current, key, value) ==
    IF pages[current].type = "CORRUPT"
    THEN [pages |-> pages, err |-> "INVALID_RECORD_FORMAT"]
    ELSE IF pages[current].type = "LEAF"
    THEN RemoveAtPosition(pages, pages[current], RemovePosition(pages[current], key, value))
    ELSE RemoveFrom(pages,
                    pages[current].children[Min(FindInternalChild(pages[current], key),
                                                Len(pages[current].children))],
                    key, value)

\* Remove once the descent is back with st
Removed(t, st) == [tree |-> [t EXCEPT !.pages = st.pages], status |-> st.err]

\* BPlusTree::Remove: [tree, status]
Remove(t, key, value) == Removed(t, RemoveFrom(t.pages, t.root_page_id, key, value))

\* an optional key (std::optional<std::vector<uint8_t>>)
NoKey == [has |-> FALSE, key |-> <<>>]

SomeKey(k) == [has |-> TRUE, key |-> k]

\* the bounds of a range scan
Bounds(lower_key, lower_inclusive, upper_key, upper_inclusive) ==
    [lower_key |-> lower_key, lower_inclusive |-> lower_inclusive,
     upper_key |-> upper_key, upper_inclusive |-> upper_inclusive]

RECURSIVE FindLeafPosition(_, _, _)
\* BPlusTree::FindLeafPosition: [status, leaf, index]
FindLeafPosition(pages, current, key) ==
    IF pages[current].type = "CORRUPT"
    THEN [status |-> "INVALID_RECORD_FORMAT", leaf |-> INVALID_PAGE_ID, index |-> 1]
    ELSE IF pages[current].type = "LEAF"
    THEN [status |-> "OK", leaf |-> current, index |-> FindLeafIndex(pages[current], key)]
    ELSE FindLeafPosition(pages,
                          pages[current].children[FindInternalChild(pages[current], key)],
                          key)

RECURSIVE FindLeftmostLeaf(_, _)
\* BPlusTree::FindLeftmostLeaf: [status, leaf, index]
FindLeftmostLeaf(pages, current) ==
    IF pages[current].type = "CORRUPT"
    THEN [status |-> "INVALID_RECORD_FORMAT", leaf |-> INVALID_PAGE_ID, index |-> 1]
    ELSE IF pages[current].type = "LEAF"
    THEN [status |-> "OK", leaf |-> current, index |-> 1]
    ELSE IF pages[current].children = <<>>
    THEN [status |-> "OK", leaf |-> INVALID_PAGE_ID, index |-> 1]
    ELSE FindLeftmostLeaf(pages, pages[current].children[1])

\* ScanRange's test on one entry: below the lower bound
BelowLower(key, b) ==
    /\ b.lower_key.has
    /\ \/ CompareKeys(key, b.lower_key.key) < 0
       \/ (CompareKeys(key, b.lower_key.key) = 0 /\ ~b.lower_inclusive)

\* ScanRange's test on one entry: above the upper bound
AboveUpper(key, b) ==
    /\ b.upper_key.has
    /\ \/ CompareKeys(key, b.upper_key.key) > 0
       \/ (CompareKeys(key, b.upper_key.key) = 0 /\ ~b.upper_inclusive)

RECURSIVE ScanEntries(_, _, _, _)
\* the for loop of ScanRange over one leaf: [values, done]; done when an entry
\* above the upper bound made ScanRange return
ScanEntries(entries, idx, b, results) ==
    IF idx > Len(entries) THEN [values |-> results, done |-> FALSE]
    ELSE IF BelowLower(entries[idx].key, b)
    THEN ScanEntries(entries, idx + 1, b, results)
    ELSE IF AboveUpper(entries[idx].key, b)
    THEN [values |-> results, done |-> TRUE]
    ELSE ScanEntries(entries, idx + 1, b, Append(results, entries[idx].value))

RECURSIVE ScanLeaves(_, _, _, _, _)
\* the while loop of ScanRange once the for loop over a leaf is back with r
AfterLeaf(pages, next_leaf, b, r) ==
    IF r.done THEN [status |-> "OK", values |-> r.values]
    ELSE ScanLeaves(pages, next_leaf, 1, b, r.values)

\* the while loop of ScanRange along next_leaf: [status, values]
ScanLeaves(pages, current, start_index, b, results) ==
    IF current = INVALID_PAGE_ID THEN [status |-> "OK", values |-> results]
    ELSE IF pages[current].type = "CORRUPT"
    THEN [status |-> "INVALID_RECORD_FORMAT", values |-> <<>>]
    ELSE AfterLeaf(pages, pages[current].next_leaf, b,
                   ScanEntries(pages[current].leaf_entries, start_index, b, results))

\* ScanRange from the position the descent found
ScanFrom(pages, start, b) ==
    IF start.status # "OK" THEN [status |-> start.status, values |-> <<>>]
    ELSE ScanLeaves(pages, start.leaf, start.index, b, <<>>)

\* BPlusTree::ScanRange: [status, values]
ScanRange(t, lower_key, lower_inclusive, upper_key, upper_inclusive) ==
    ScanFrom(t.pages,
             IF lower_key.has
             THEN FindLeafPosition(t.pages, t.root_page_id, lower_key.key)
             ELSE FindLeftmostLeaf(t.pages, t.root_page_id),
             Bounds(lower_key, lower_inclusive, upper_key, upper_inclusive))

\* BPlusTree::ScanEqual
ScanEqual(t, key) == ScanRange(t, SomeKey(key), TRUE, SomeKey(key), TRUE)

(***************************************************************************)
(* What a tree holds: the entries of the leaves that can be read by        *)
(* walking down from the root through every child pointer.                 *)
(***************************************************************************)
RECURSIVE ReachableLeaves(_, _)
ReachableLeaves(pages, page_id) ==
    IF pages[page_id].type = "CORRUPT" THEN {}
    ELSE IF pages[page_id].type = "LEAF" THEN {page_id}
    ELSE UNION {ReachableLeaves(pages, pages[page_id].children[i]) :
                    i \in 1..Len(pages[page_id].children)}

TreePairs(t) ==
    UNION {{<<t.pages[p].leaf_entries[i].key, t.pages[p].leaf_entries[i].value>> :
                i \in 1..Len(t.pages[p].leaf_entries)} :
           p \in ReachableLeaves(t.pages, t.root_page_id)}

TreeKeys(t) == {pr[1] : pr \in TreePairs(t)}

\* no page of the index file has been left without a node by a failed store
Intact(t) == \A p \in 1..Len(t.pages) : t.pages[p].type # "CORRUPT"

\* Keys in CompareKeys order
KeyRank(k) == Cardinality({j \in Keys : CompareKeys(j, k) < 0}) + 1

KeyOrder == [i \in 1..Cardinality(Keys) |-> CHOOSE k \in Keys : KeyRank(k) = i]

\* key lies within the optional bounds, compared as CompareKeys compares
InBounds(key, b) ==
    /\ b.lower_key.has =>
          \/ CompareKeys(key, b.lower_key.key) > 0
          \/ (CompareKeys(key, b.lower_key.key) = 0 /\ b.lower_inclusive)
    /\ b.upper_key.has =>
          \/ CompareKeys(key, b.upper_key.key) < 0
          \/ (CompareKeys(key, b.upper_key.key) = 0 /\ b.upper_inclusive)

\* the values of the tree's entries within the bounds, in key order
EntriesWithin(t, b) ==
    SelectSeq([i \in 1..Cardinality(Keys) |->
                  IF KeyOrder[i] \in TreeKeys(t) /\ InBounds(KeyOrder[i], b)
                  THEN CHOOSE v \in Values : <<KeyOrder[i], v>> \in TreePairs(t)
                  ELSE 0],
              LAMBDA v : v # 0)

OptKeys == {NoKey} \cup {SomeKey(k) : k \in Keys}

(***************************************************************************)
(* Values and the record codec                                             *)
(***************************************************************************)
\* Value::null, Value::int32
Null == [is_null |-> TRUE, v |-> 0]

Int32(n) == [is_null |-> FALSE, v |-> n]

\* an INTEGER payload: 4 bytes, little-endian, two's complement
Int32LE(n) ==
    <<n % 256, (n \div 256) % 256, (n \div 65536) % 256, (n \div 16777216) % 256>>

FromInt32LE(b) ==
    b[1] + 256 * b[2] + 65536 * b[3]
        + 16777216 * (IF b[4] >= 128 THEN b[4] - 256 ELSE b[4])

RECURSIVE FieldBytes(_)
\* per field: type_tag u8, length u16, payload; a NULL field has length 0
FieldBytes(fields) ==
    IF fields = <<>> THEN <<>>
    ELSE (IF Head(fields).is_null THEN <<TYPE_TAG_INTEGER, 0, 0>>
          ELSE <<TYPE_TAG_INTEGER, 4, 0>> \o Int32LE(Head(fields).v))
         \o FieldBytes(Tail(fields))

RECURSIVE NullBitmap(_, _)
\* bit i-1 of the bitmap byte is set when field i is NULL
NullBitmap(fields, i) ==
    IF i > Len(fields) THEN 0
    ELSE (IF fields[i].is_null THEN 2 ^ (i - 1) ELSE 0) + NullBitmap(fields, i + 1)

\* record::encode: field_count u16, null bitmap, fields
RecordEncode(fields) ==
    <<Len(fields) % 256, Len(fields) \div 256, NullBitmap(fields, 1)>> \o FieldBytes(fields)

RECURSIVE DecodeFields(_, _, _)
\* the fields from the i-th on, the i-th starting at byte pos
DecodeFields(bytes, pos, i) ==
    IF i > bytes[1] + 256 * bytes[2] THEN <<>>
    ELSE <<IF (bytes[3] \div (2 ^ (i - 1))) % 2 = 1 THEN Null
           ELSE Int32(FromInt32LE(SubSeq(bytes, pos + 3, pos + 6)))>>
         \o DecodeFields(bytes, pos + 3 + bytes[pos + 1] + 256 * bytes[pos + 2], i + 1)

\* record::decode
RecordDecode(bytes) == DecodeFields(bytes, 4, 1)

(***************************************************************************)
(* The table t(id INTEGER PRIMARY KEY, a INTEGER) with CREATE INDEX idx_a   *)
(* ON t(a), as the catalog describes it                                    *)
(***************************************************************************)
\* catalog_.get_columns: PRIMARY KEY implies NOT NULL
Columns == <<[name |-> "id", not_null |-> TRUE], [name |-> "a", not_null |-> FALSE]>>

\* catalog_.get_indexes: the table's indexes ordered by name; t_pk is the
\* unique index CREATE TABLE made for the primary key
IndexCatalog ==
    <<[name |-> "idx_a", column |-> 2, is_unique |-> FALSE],
      [name |-> "t_pk", column |-> 1, is_unique |-> TRUE]>>

\* DMLExecutor::encode_values
encode_values(values) == RecordEncode(values)

\* DMLExecutor::decode_row_values
decode_row_values(payload) == RecordDecode(payload)

\* DMLExecutor::build_index_key
build_index_key(ctx, row_values) == encode_values(<<row_values[ctx.column]>>)

\* record ids keep the page id above the slot id; the shift is scaled from 32
\* bits
SlotSpan == 2 ^ 16

\* DMLExecutor::make_record_id
make_record_id(loc) == loc.page_id * SlotSpan + loc.slot

\* DMLExecutor::decode_record_id
decode_record_id(id) == [page_id |-> id \div SlotSpan, slot |-> id % SlotSpan]

(***************************************************************************)
(* Slotted pages and the table heap.  A heap is the chain of its pages     *)
(* (page id = position, the root first); a page is its slot directory;     *)
(* slot ids count from 0.                                                  *)
(***************************************************************************)
RECURSIVE SpaceUsed(_)
\* payload bytes a page has handed out: erase and update never give any back
SpaceUsed(slots) ==
    IF slots = <<>> THEN 0 ELSE Head(slots).space + SpaceUsed(Tail(slots))

\* Page::insert: [ok, page, slot]
PageInsert(page, payload) ==
    IF (Len(page) + 1) * SLOT_ENTRY_BYTES + SpaceUsed(page) + Len(payload) <= HEAP_BODY_BYTES
    THEN [ok |-> TRUE,
          page |-> Append(page, [length |-> Len(payload), tombstone |-> FALSE,
                                 payload |-> payload, space |-> Len(payload)]),
          slot |-> Len(page)]
    ELSE [ok |-> FALSE, page |-> page, slot |-> 0]

\* Page::read: [ok, payload]
PageRead(page, slot) ==
    IF slot >= Len(page) \/ page[slot + 1].tombstone
    THEN [ok |-> FALSE, payload |-> <<>>]
    ELSE [ok |-> TRUE, payload |-> page[slot + 1].payload]

\* Page::update: in place when the new bytes fit the slot's length
PageUpdate(page, slot, payload) ==
    IF slot >= Len(page) \/ page[slot + 1].tombstone \/ Len(payload) > page[slot + 1].length
    THEN [ok |-> FALSE, page |-> page]
    ELSE [ok |-> TRUE,
          page |-> [page EXCEPT ![slot + 1].payload = payload,
                                ![slot + 1].length = Len(payload)]]

\* Page::erase: tombstone only
PageErase(page, slot) ==
    IF slot >= Len(page) \/ page[slot + 1].tombstone
    THEN [ok |-> FALSE, page |-> page]
    ELSE [ok |-> TRUE, page |-> [page EXCEPT ![slot + 1].tombstone = TRUE]]

\* TableHeap::is_valid_page on a page id of this heap
is_valid_page(h, page_id) == page_id >= 1 /\ page_id <= Len(h)

\* TableHeap::append_new_page once Page::insert on the new page is back
Appended(h, r) ==
    IF r.ok
    THEN [heap |-> Append(h, r.page),
          loc |-> [page_id |-> Len(h) + 1, slot |-> r.slot], err |-> "OK"]
    ELSE [heap |-> h, loc |-> [page_id |-> 0, slot |-> 0], err |-> "PAGE_FULL"]

\* TableHeap::append_new_page: [heap, loc, err]
append_new_page(h, payload) == Appended(h, PageInsert(<<>>, payload))

\* TableHeap::insert once Page::insert on the tail page is back
InsertedAtTail(h, payload, r) ==
    IF r.ok
    THEN [heap |-> [h EXCEPT ![Len(h)] = r.page],
          loc |-> [page_id |-> Len(h), slot |-> r.slot], err |-> "OK"]
    ELSE append_new_page(h, payload)

\* TableHeap::insert from the tail page: [heap, loc, err]
HeapInsert(h, payload) == InsertedAtTail(h, payload, PageInsert(h[Len(h)], payload))

\* TableHeap::read: [ok, payload]
HeapRead(h, loc) ==
    IF ~is_valid_page(h, loc.page_id) THEN [ok |-> FALSE, payload |-> <<>>]
    ELSE PageRead(h[loc.page_id], loc.slot)

\* TableHeap::erase once Page::erase is back
Erased(h, loc, r) == [ok |-> r.ok, heap |-> [h EXCEPT ![loc.page_id] = r.page]]

\* TableHeap::erase: [ok, heap]
HeapErase(h, loc) ==
    IF ~is_valid_page(h, loc.page_id) THEN [ok |-> FALSE, heap |-> h]
    ELSE Erased(h, loc, PageErase(h[loc.page_id], loc.slot))

\* TableHeap::update when Page::update refused: erase, then insert
Relocated(h, loc, payload, e) ==
    IF ~e.ok THEN [heap |-> h, loc |-> loc, err |-> "RECORD_NOT_FOUND"]
    ELSE HeapInsert(e.heap, payload)

\* TableHeap::update once Page::update is back
Updated(h, loc, payload, u) ==
    IF u.ok THEN [heap |-> [h EXCEPT ![loc.page_id] = u.page], loc |-> loc, err |-> "OK"]
    ELSE Relocated(h, loc, payload, HeapErase(h, loc))

\* TableHeap::update: in place, or erase and insert again: [heap, loc, err]
HeapUpdate(h, loc, payload) ==
    IF ~is_valid_page(h, loc.page_id)
    THEN [heap |-> h, loc |-> loc, err |-> "RECORD_NOT_FOUND"]
    ELSE Updated(h, loc, payload, PageUpdate(h[loc.page_id], loc.slot, payload))

RECURSIVE PageLocations(_, _, _)
PageLocations(h, page_id, slot) ==
    IF slot >= Len(h[page_id]) THEN <<>>
    ELSE <<[page_id |-> page_id, slot |-> slot]>> \o PageLocations(h, page_id, slot + 1)

RECURSIVE HeapLocations(_, _)
\* the order TableHeap::scan visits slots in: page order, then slot order
HeapLocations(h, page_id) ==
    IF page_id > Len(h) THEN <<>>
    ELSE PageLocations(h, page_id, 0) \o HeapLocations(h, page_id + 1)

(***************************************************************************)
(* ExpressionEvaluator.  A literal is NULL, an integer or a decimal; its   *)
(* magnitude is kept in halves, so that 1 is 2 halves and 1.5 is 3.  A     *)
(* typed Value is [type, is_null, halves].  TriBool is "True", "False" or  *)
(* "Unknown"; CompareResult is "Less", "Equal", "Greater" or "Unknown".    *)
(***************************************************************************)
NullLiteral == [kind |-> "NULL_LITERAL", halves |-> 0]

IntegerLiteral(n) == [kind |-> "INTEGER", halves |-> 2 * n]

DoubleLiteral(halves) == [kind |-> "DOUBLE", halves |-> halves]

NoHint == "NULL_TYPE"

NullOf(type) == [type |-> type, is_null |-> TRUE, halves |-> 0]

Integer32(n) == [type |-> "INTEGER", is_null |-> FALSE, halves |-> 2 * n]

Floating(halves) == [type |-> "DOUBLE", is_null |-> FALSE, halves |-> halves]

\* static_cast<int32_t> of a double: towards zero
Truncated(halves) == IF halves >= 0 THEN halves \div 2 ELSE 0 - ((0 - halves) \div 2)

\* a row of the table with the types of its columns (all INTEGER)
Typed(values) ==
    [c \in 1..Len(values) |->
        IF values[c].is_null THEN NullOf("INTEGER") ELSE Integer32(values[c].v)]

\* the expressions of the AST
Literal(literal) == [kind |-> "LITERAL", literal |-> literal]

ColumnRef(table, column) == [kind |-> "COLUMN_REF", table |-> table, column |-> column]

Not(operand) == [kind |-> "UNARY", left |-> operand]

Binary(binary_op, left, right) ==
    [kind |-> "BINARY", binary_op |-> binary_op, left |-> left, right |-> right]

NullTest(operand, is_not_null) ==
    [kind |-> "NULL_TEST", left |-> operand, is_not_null |-> is_not_null]

\* the kernels of TriBool
logical_not(operand) ==
    CASE operand = "True" -> "False"
      [] operand = "False" -> "True"
      [] OTHER -> "Unknown"

logical_and(lhs, rhs) ==
    IF lhs = "False" \/ rhs = "False" THEN "False"
    ELSE IF lhs = "Unknown" \/ rhs = "Unknown" THEN "Unknown"
    ELSE "True"

logical_or(lhs, rhs) ==
    IF lhs = "True" \/ rhs = "True" THEN "True"
    ELSE IF lhs = "Unknown" \/ rhs = "Unknown" THEN "Unknown"
    ELSE "False"

\* compare() on two Values: Unknown with a NULL operand; INTEGER and DOUBLE
\* widen to DOUBLE
compare(lhs, rhs) ==
    IF lhs.is_null \/ rhs.is_null THEN "Unknown"
    ELSE IF lhs.halves < rhs.halves THEN "Less"
    ELSE IF lhs.halves > rhs.halves THEN "Greater"
    ELSE "Equal"

value_to_tristate(value) ==
    IF value.is_null THEN "Unknown"
    ELSE IF value.halves = 0 THEN "False"
    ELSE "True"

\* ExpressionEvaluator::literal_to_value: an integer literal is an INTEGER
\* with or without the hint, a decimal literal a DOUBLE
literal_to_value(literal, target_type) ==
    CASE literal.kind = "NULL_LITERAL" -> NullOf(target_type)
      [] literal.kind = "INTEGER" -> Integer32(literal.halves \div 2)
      [] OTHER -> Floating(literal.halves)

\* ExpressionEvaluator::coerce_to_type with an INTEGER target: only a BIGINT
\* is converted
coerce_to_type(value, target) == IF value.is_null THEN NullOf(target) ELSE value

\* a binding: the column's name, its position in the row and the names that
\* qualify it
BindingEntry(column_name, index, qualifiers) ==
    [column_name |-> column_name, index |-> index, qualifiers |-> qualifiers]

\* make_single_table_bindings
SingleTableBindings(table_name) ==
    [c \in 1..Len(Columns) |-> BindingEntry(Columns[c].name, c, {table_name})]

\* the positions registered under column (table = "") or table.column
BoundTo(bindings, table, column) ==
    {bindings[n].index : n \in {m \in 1..Len(bindings) :
        /\ bindings[m].column_name = column
        /\ table = "" \/ table \in bindings[m].qualifiers}}

OneOf(positions) ==
    IF Cardinality(positions) > 1 THEN 0 - 1 ELSE CHOOSE p \in positions : TRUE

\* ExpressionEvaluator::lookup_column: the position in the row, 0 when the
\* name is not bound and -1 when it is ambiguous
lookup_column(bindings, column_ref) ==
    IF column_ref.table # "" /\ BoundTo(bindings, column_ref.table, column_ref.column) # {}
    THEN OneOf(BoundTo(bindings, column_ref.table, column_ref.column))
    ELSE IF BoundTo(bindings, "", column_ref.column) # {}
    THEN OneOf(BoundTo(bindings, "", column_ref.column))
    ELSE 0

\* ExpressionEvaluator::evaluate_value of a literal or a column reference
evaluate_value(bindings, expression, row_values, target_hint) ==
    IF expression.kind = "LITERAL" THEN literal_to_value(expression.literal, target_hint)
    ELSE row_values[lookup_column(bindings, expression)]

\* the type a literal operand is read with: that of the column on the other
\* side
HintFrom(other) == IF other.kind = "COLUMN_REF" THEN "INTEGER" ELSE NoHint

\* a column operand is coerced to its declared type
Coerced(expression, value) ==
    IF expression.kind = "COLUMN_REF" THEN coerce_to_type(value, "INTEGER") ELSE value

\* evaluate_predicate_internal, the switch on a comparison operator
Compared(binary_op, cmp) ==
    IF cmp = "Unknown" THEN "Unknown"
    ELSE IF CASE binary_op = "EQUAL" -> cmp = "Equal"
              [] binary_op = "NOT_EQUAL" -> cmp # "Equal"
              [] binary_op = "LESS" -> cmp = "Less"
              [] binary_op = "LESS_EQUAL" -> cmp \in {"Less", "Equal"}
              [] binary_op = "GREATER" -> cmp = "Greater"
              [] binary_op = "GREATER_EQUAL" -> cmp \in {"Greater", "Equal"}
              [] OTHER -> FALSE
    THEN "True"
    ELSE "False"

\* evaluate_predicate_internal, a comparison of two scalar operands
Comparison(bindings, expression, row_values) ==
    Compared(expression.binary_op,
             compare(Coerced(expression.left,
                             evaluate_value(bindings, expression.left, row_values,
                                            HintFrom(expression.right))),
                     Coerced(expression.right,
                             evaluate_value(bindings, expression.right, row_values,
                                            HintFrom(expression.left)))))

\* evaluate_predicate_internal, case NULL_TEST
NullTested(expression, value) ==
    IF value.is_null = ~expression.is_not_null THEN "True" ELSE "False"

RECURSIVE evaluate_predicate_internal(_, _, _)
\* ExpressionEvaluator::evaluate_predicate_internal
evaluate_predicate_internal(bindings, expression, row_values) ==
    IF expression.kind = "LITERAL"
    THEN value_to_tristate(literal_to_value(expression.literal, NoHint))
    ELSE IF expression.kind = "COLUMN_REF"
    THEN value_to_tristate(row_values[lookup_column(bindings, expression)])
    ELSE IF expression.kind = "UNARY"
    THEN logical_not(evaluate_predicate_internal(bindings, expression.left, row_values))
    ELSE IF expression.kind = "NULL_TEST"
    THEN NullTested(expression,
                    evaluate_value(bindings, expression.left, row_values, NoHint))
    ELSE IF expression.binary_op = "AND"
    THEN logical_and(evaluate_predicate_internal(bindings, expression.left, row_values),
                     evaluate_predicate_internal(bindings, expression.right, row_values))
    ELSE IF expression.binary_op = "OR"
    THEN logical_or(evaluate_predicate_internal(bindings, expression.left, row_values),
                    evaluate_predicate_internal(bindings, expression.right, row_values))
    ELSE Comparison(bindings, expression, row_values)

\* ExpressionEvaluator::evaluate_predicate
evaluate_predicate(bindings, expression, row_values) ==
    evaluate_predicate_internal(bindings, expression, row_values)

is_not_false(value) == value # "False"

is_true(value) == value = "True"

(***************************************************************************)
(* Predicate extraction.  A ColumnPredicate is [equality, lower,           *)
(* lower_inclusive, upper, upper_inclusive, contradiction] with optional   *)
(* values [has, value]; a PredicateExtraction is [has, predicates,         *)
(* contradiction], predicates per column position with [present, pred].    *)
(***************************************************************************)
NoValue == [has |-> FALSE, value |-> NullOf("INTEGER")]

SomeValue(value) == [has |-> TRUE, value |-> value]

NewColumnPredicate ==
    [equality |-> NoValue, lower |-> NoValue, lower_inclusive |-> FALSE,
     upper |-> NoValue, upper_inclusive |-> FALSE, contradiction |-> FALSE]

\* ColumnPredicate::bounds_compatible
bounds_compatible(p) ==
    IF p.contradiction THEN FALSE
    ELSE IF p.lower.has /\ p.upper.has
    THEN ~(\/ compare(p.lower.value, p.upper.value) = "Greater"
           \/ /\ compare(p.lower.value, p.upper.value) = "Equal"
              /\ ~p.lower_inclusive \/ ~p.upper_inclusive)
    ELSE TRUE

\* the end of apply_lower and apply_upper: [pred, ok]
BoundsChecked(p) ==
    IF bounds_compatible(p) THEN [pred |-> p, ok |-> TRUE]
    ELSE [pred |-> [p EXCEPT !.contradiction = TRUE], ok |-> FALSE]

Contradicted(p) == [pred |-> [p EXCEPT !.contradiction = TRUE], ok |-> FALSE]

\* apply_lower with a lower bound already there
LowerTightened(p, value, inclusive, cmp) ==
    IF cmp = "Greater"
    THEN BoundsChecked([p EXCEPT !.lower = SomeValue(value), !.lower_inclusive = inclusive])
    ELSE IF cmp = "Equal"
    THEN BoundsChecked([p EXCEPT !.lower_inclusive = @ /\ inclusive])
    ELSE IF cmp = "Unknown" THEN Contradicted(p)
    ELSE BoundsChecked(p)

\* ColumnPredicate::apply_lower: [pred, ok]
apply_lower(p, value, inclusive) ==
    IF p.contradiction THEN [pred |-> p, ok |-> FALSE]
    ELSE IF value.is_null THEN Contradicted(p)
    ELSE IF ~p.lower.has
    THEN BoundsChecked([p EXCEPT !.lower = SomeValue(value), !.lower_inclusive = inclusive])
    ELSE LowerTightened(p, value, inclusive, compare(value, p.lower.value))

\* apply_upper with an upper bound already there
UpperTightened(p, value, inclusive, cmp) ==
    IF cmp = "Less"
    THEN BoundsChecked([p EXCEPT !.upper = SomeValue(value), !.upper_inclusive = inclusive])
    ELSE IF cmp = "Equal"
    THEN BoundsChecked([p EXCEPT !.upper_inclusive = @ /\ inclusive])
    ELSE IF cmp = "Unknown" THEN Contradicted(p)
    ELSE BoundsChecked(p)

\* ColumnPredicate::apply_upper: [pred, ok]
apply_upper(p, value, inclusive) ==
    IF p.contradiction THEN [pred |-> p, ok |-> FALSE]
    ELSE IF value.is_null THEN Contradicted(p)
    ELSE IF ~p.upper.has
    THEN BoundsChecked([p EXCEPT !.upper = SomeValue(value), !.upper_inclusive = inclusive])
    ELSE UpperTightened(p, value, inclusive, compare(value, p.upper.value))

\* apply_equality once apply_lower is back with r
EqualityLowered(r, value) == IF ~r.ok THEN r ELSE apply_upper(r.pred, value, TRUE)

\* ColumnPredicate::apply_equality: [pred, ok]
apply_equality(p, value) ==
    IF p.contradiction THEN [pred |-> p, ok |-> FALSE]
    ELSE IF value.is_null THEN Contradicted(p)
    ELSE IF p.equality.has /\ compare(p.equality.value, value) # "Equal"
    THEN Contradicted(p)
    ELSE EqualityLowered(apply_lower([p EXCEPT !.equality = SomeValue(value)], value, TRUE),
                         value)

\* DMLExecutor::literal_to_value_for_column for an INTEGER column: a decimal
\* literal is cast to int32
literal_to_value_for_column(literal) ==
    IF literal.kind = "NULL_LITERAL" THEN NullOf("INTEGER")
    ELSE IF literal.kind = "INTEGER" THEN Integer32(literal.halves \div 2)
    ELSE Integer32(Truncated(literal.halves))

\* DMLExecutor::find_column_index: the position of the named column, 0 when
\* the table has none
find_column_index(column_ref) ==
    FirstIn({c \in 1..Len(Columns) : Columns[c].name = column_ref.column}, 0)

NoPredicates == [c \in 1..Len(Columns) |-> [present |-> FALSE, pred |-> NewColumnPredicate]]

NewExtraction == [has |-> TRUE, predicates |-> NoPredicates, contradiction |-> FALSE]

\* extract_column_predicates, the operator with the column on the left
EffectiveOp(binary_op, column_on_left) ==
    IF column_on_left THEN binary_op
    ELSE IF binary_op = "LESS" THEN "GREATER"
    ELSE IF binary_op = "LESS_EQUAL" THEN "GREATER_EQUAL"
    ELSE IF binary_op = "GREATER" THEN "LESS"
    ELSE IF binary_op = "GREATER_EQUAL" THEN "LESS_EQUAL"
    ELSE binary_op

\* extract_column_predicates, the switch on effective_op: [pred, ok]
Applied(p, effective_op, value) ==
    IF effective_op = "EQUAL" THEN apply_equality(p, value)
    ELSE IF effective_op = "GREATER" THEN apply_lower(p, value, FALSE)
    ELSE IF effective_op = "GREATER_EQUAL" THEN apply_lower(p, value, TRUE)
    ELSE IF effective_op = "LESS" THEN apply_upper(p, value, FALSE)
    ELSE apply_upper(p, value, TRUE)

\* visit of a comparison once the predicate of column c is back with r:
\* [ok, extraction]
Recorded(extraction, c, r) ==
    [ok |-> r.ok \/ r.pred.contradiction,
     extraction |->
         [extraction EXCEPT
             !.predicates[c] = [present |-> TRUE, pred |-> r.pred],
             !.contradiction = IF r.ok THEN @ ELSE r.pred.contradiction]]

\* visit of column op literal (or literal op column) with the literal's value
VisitColumn(extraction, binary_op, column_on_left, c, value) ==
    IF value.is_null THEN [ok |-> FALSE, extraction |-> extraction]
    ELSE Recorded(extraction, c,
                  Applied(IF extraction.predicates[c].present
                          THEN extraction.predicates[c].pred
                          ELSE NewColumnPredicate,
                          EffectiveOp(binary_op, column_on_left), value))

\* visit of a comparison
VisitComparison(extraction, expr) ==
    IF expr.left.kind = "COLUMN_REF" /\ expr.right.kind = "LITERAL"
    THEN VisitColumn(extraction, expr.binary_op, TRUE, find_column_index(expr.left),
                     literal_to_value_for_column(expr.right.literal))
    ELSE IF expr.right.kind = "COLUMN_REF" /\ expr.left.kind = "LITERAL"
    THEN VisitColumn(extraction, expr.binary_op, FALSE, find_column_index(expr.right),
                     literal_to_value_for_column(expr.left.literal))
    ELSE [ok |-> FALSE, extraction |-> extraction]

RECURSIVE Visit(_, _)
\* visit(left) && visit(right)
VisitRight(l, expr) == IF ~l.ok THEN l ELSE Visit(l.extraction, expr)

\* extract_column_predicates, the lambda visit: [ok, extraction]
Visit(extraction, expr) ==
    IF expr.kind # "BINARY" THEN [ok |-> FALSE, extraction |-> extraction]
    ELSE IF expr.binary_op = "AND" THEN VisitRight(Visit(extraction, expr.left), expr.right)
    ELSE IF expr.binary_op \in {"EQUAL", "LESS", "LESS_EQUAL", "GREATER", "GREATER_EQUAL"}
    THEN VisitComparison(extraction, expr)
    ELSE [ok |-> FALSE, extraction |-> extraction]

\* extract_column_predicates, the loop over the predicates after visit
Extracted(v) ==
    IF ~v.ok THEN [has |-> FALSE, predicates |-> NoPredicates, contradiction |-> FALSE]
    ELSE [v.extraction EXCEPT
             !.contradiction =
                 @ \/ \E c \in 1..Len(Columns) :
                          /\ v.extraction.predicates[c].present
                          /\ \/ v.extraction.predicates[c].pred.contradiction
                             \/ ~bounds_compatible(v.extraction.predicates[c].pred)]

\* DMLExecutor::extract_column_predicates of a WHERE clause that is there
extract_column_predicates(predicate) == Extracted(Visit(NewExtraction, predicate))

(***************************************************************************)
(* DMLExecutor.  A statement runs on db = [heap, indexes, err, rid,        *)
(* values]: err is the status the statement has ended with so far ("OK"    *)
(* while it runs), rid and values are the record id and the column values  *)
(* of the row it was working on (for UPDATE: the row as it was before).    *)
(***************************************************************************)
NoRid == 0 - 1

\* the state a statement starts from
Begin(h, ix) == [heap |-> h, indexes |-> ix, err |-> "OK", rid |-> NoRid, values |-> <<>>]

\* the state a statement is in when it throws err while working on a row
Thrown(db, err, rid, values) == [db EXCEPT !.err = err, !.rid = rid, !.values = values]

\* a tree operation on the index at i is back with r = [tree, status]
IndexResult(ix, i, r) == [indexes |-> [ix EXCEPT ![i] = r.tree], err |-> r.status]

RECURSIVE InsertIndexEntries(_, _, _, _)
\* insert_into: the rest of the loop over index_contexts once tree.Insert on
\* the index at i is back
IndexInserted(i, row_values, record_id, r) ==
    IF r.err # "OK" THEN r
    ELSE InsertIndexEntries(r.indexes, i + 1, row_values, record_id)

\* insert_into, the loop over index_contexts for one row: [indexes, err]
InsertIndexEntries(ix, i, row_values, record_id) ==
    IF i > Len(IndexCatalog) THEN [indexes |-> ix, err |-> "OK"]
    ELSE IndexInserted(i, row_values, record_id,
             IndexResult(ix, i, Insert(ix[i], build_index_key(IndexCatalog[i], row_values),
                                       record_id)))

\* encode_row rejects NULL for a NOT NULL column
ViolatesNotNull(row) == \E c \in 1..Len(Columns) : row[c].is_null /\ Columns[c].not_null

\* insert_into: a row is in the heap at record_id and its index entries are
\* attempted
RowIndexed(h, row_values, record_id, r) ==
    [heap |-> h, indexes |-> r.indexes, err |-> r.err, rid |-> record_id,
     values |-> row_values]

\* insert_into: heap.insert of a row is back with h = [heap, loc, err]
RowStored(db, row_values, h) ==
    IF h.err # "OK" THEN Thrown(db, h.err, NoRid, row_values)
    ELSE RowIndexed(h.heap, row_values, make_record_id(h.loc),
                    InsertIndexEntries(db.indexes, 1, row_values, make_record_id(h.loc)))

\* insert_into: encode_row gave the payload of a row
RowEncoded(db, payload) ==
    RowStored(db, decode_row_values(payload), HeapInsert(db.heap, payload))

\* insert_into, the body of the loop over stmt.rows
insert_row(db, row) ==
    IF ViolatesNotNull(row) THEN Thrown(db, "INVALID_CONSTRAINT", NoRid, row)
    ELSE RowEncoded(db, RecordEncode(row))

RECURSIVE insert_rows(_, _)
\* insert_into, the loop over stmt.rows
insert_rows(db, rows) ==
    IF rows = <<>> \/ db.err # "OK" THEN db
    ELSE insert_rows(insert_row(db, Head(rows)), Tail(rows))

\* DMLExecutor::insert_into
insert_into(h, ix, rows) == insert_rows(Begin(h, ix), rows)

\* a WHERE clause: absent, or an expression
NoWhere == [has |-> FALSE, expr |-> Literal(NullLiteral)]

Where(expr) == [has |-> TRUE, expr |-> expr]

\* WHERE column = literal with a non-NULL integer literal
WhereEq(column, value) ==
    Where(Binary("EQUAL", ColumnRef("", Columns[column].name), Literal(IntegerLiteral(value))))

\* is_true(evaluate_predicate) on a decoded row of the table
Matches(where, values) ==
    ~where.has \/ is_true(evaluate_predicate(SingleTableBindings("t"), where.expr,
                                              Typed(values)))

\* predicate_info: the extraction of the WHERE clause, none without one
PredicateInfo(where) ==
    IF where.has THEN extract_column_predicates(where.expr)
    ELSE [has |-> FALSE, predicates |-> NoPredicates, contradiction |-> FALSE]

\* the statement is short-circuited to zero rows
Contradiction(where) == PredicateInfo(where).has /\ PredicateInfo(where).contradiction

\* an IndexScanSpec; context_index = 0 stands for none
NoScan ==
    [context_index |-> 0, kind |-> "Equality", equality_values |-> <<>>,
     lower_value |-> NoValue, lower_inclusive |-> TRUE,
     upper_value |-> NoValue, upper_inclusive |-> TRUE]

EqualityScan(i, value) == [NoScan EXCEPT !.context_index = i, !.equality_values = <<value>>]

RangeScan(i, p) ==
    [NoScan EXCEPT !.context_index = i, !.kind = "Range",
                   !.lower_value = p.lower,
                   !.lower_inclusive = IF p.lower.has THEN p.lower_inclusive ELSE TRUE,
                   !.upper_value = p.upper,
                   !.upper_inclusive = IF p.upper.has THEN p.upper_inclusive ELSE TRUE]

\* choose_index_scan, first loop: the first index whose column carries an
\* equality predicate (every index has one column), 0 when there is none
EqualityIndex(predicates) ==
    FirstIn({i \in 1..Len(IndexCatalog) :
                /\ predicates[IndexCatalog[i].column].present
                /\ predicates[IndexCatalog[i].column].pred.equality.has}, 0)

RECURSIVE RangeIndexFrom(_, _)
\* choose_index_scan, second loop from the index at i on
RangeIndexFrom(predicates, i) ==
    IF i > Len(IndexCatalog) THEN NoScan
    ELSE IF ~predicates[IndexCatalog[i].column].present THEN RangeIndexFrom(predicates, i + 1)
    ELSE IF predicates[IndexCatalog[i].column].pred.contradiction THEN NoScan
    ELSE IF predicates[IndexCatalog[i].column].pred.equality.has
    THEN EqualityScan(i, predicates[IndexCatalog[i].column].pred.equality.value)
    ELSE IF \/ predicates[IndexCatalog[i].column].pred.lower.has
            \/ predicates[IndexCatalog[i].column].pred.upper.has
    THEN RangeScan(i, predicates[IndexCatalog[i].column].pred)
    ELSE RangeIndexFrom(predicates, i + 1)

\* choose_index_scan with some index whose column carries an equality or not
BestScan(predicates, i) ==
    IF i # 0 THEN EqualityScan(i, predicates[IndexCatalog[i].column].pred.equality.value)
    ELSE RangeIndexFrom(predicates, 1)

\* DMLExecutor::choose_index_scan, called when the WHERE clause was
\* extracted
choose_index_scan(info) ==
    IF ~info.has \/ info.contradiction
           \/ \A c \in 1..Len(Columns) : ~info.predicates[c].present
    THEN NoScan
    ELSE BestScan(info.predicates, EqualityIndex(info.predicates))

\* a Value of the evaluator as the record codec takes it
Plain32(value) == IF value.is_null THEN Null ELSE Int32(value.halves \div 2)

\* the key of an optional bound
BoundKey(bound) ==
    IF bound.has THEN SomeKey(encode_values(<<Plain32(bound.value)>>)) ELSE NoKey

\* DMLExecutor::run_index_scan: [status, values]
run_index_scan(ix, scan) ==
    IF scan.kind = "Equality"
    THEN ScanEqual(ix[scan.context_index],
                   encode_values(<<Plain32(scan.equality_values[1])>>))
    ELSE ScanRange(ix[scan.context_index], BoundKey(scan.lower_value), scan.lower_inclusive,
                   BoundKey(scan.upper_value), scan.upper_inclusive)

\* the candidate ids of an index scan as locations: [status, locs]
Decoded(r) ==
    [status |-> r.status,
     locs |-> [n \in 1..Len(r.values) |-> decode_record_id(r.values[n])]]

\* the locations a statement visits when choose_index_scan answered scan
CandidatesVia(h, ix, scan) ==
    IF scan.context_index = 0 THEN [status |-> "OK", locs |-> HeapLocations(h, 1)]
    ELSE Decoded(run_index_scan(ix, scan))

\* the locations a statement visits: those the index scan named, else every
\* slot in heap scan order: [status, locs]
Candidates(h, ix, where) == CandidatesVia(h, ix, choose_index_scan(PredicateInfo(where)))

RECURSIVE RemoveIndexEntries(_, _, _, _)
\* remove_row: the rest of the loop over index_contexts once tree.Remove on the
\* index at i is back
IndexRemoved(i, values, record_id, r) ==
    IF r.err # "OK" THEN r
    ELSE RemoveIndexEntries(r.indexes, i + 1, values, record_id)

\* remove_row, the loop over index_contexts: [indexes, err]
RemoveIndexEntries(ix, i, values, record_id) ==
    IF i > Len(IndexCatalog) THEN [indexes |-> ix, err |-> "OK"]
    ELSE IndexRemoved(i, values, record_id,
             IndexResult(ix, i, Remove(ix[i], build_index_key(IndexCatalog[i], values),
                                       record_id)))

\* remove_row once heap.erase is back with e = [ok, heap]
RowErased(db, loc, values, e) ==
    IF ~e.ok THEN db
    ELSE RowIndexed(e.heap, values, make_record_id(loc),
                    RemoveIndexEntries(db.indexes, 1, values, make_record_id(loc)))

\* delete_all, remove_row
remove_row(db, loc, values) == RowErased(db, loc, values, HeapErase(db.heap, loc))

\* delete_all: the row at loc was read and decoded
DeleteMatching(db, loc, where, values) ==
    IF ~Matches(where, values) THEN db ELSE remove_row(db, loc, values)

\* delete_all, the body of the loop over the candidates (or of the heap scan)
delete_row(db, loc, where, rd) ==
    IF ~rd.ok THEN db ELSE DeleteMatching(db, loc, where, decode_row_values(rd.payload))

RECURSIVE delete_rows(_, _, _)
\* delete_all, the loop over the candidates (or the heap scan)
delete_rows(db, locs, where) ==
    IF locs = <<>> \/ db.err # "OK" THEN db
    ELSE delete_rows(delete_row(db, Head(locs), where, HeapRead(db.heap, Head(locs))),
                     Tail(locs), where)

\* delete_all once the candidates are known
DeleteCandidates(db, c, where) ==
    IF c.status # "OK" THEN Thrown(db, c.status, NoRid, <<>>)
    ELSE delete_rows(db, c.locs, where)

\* DMLExecutor::delete_all
delete_all(h, ix, where) ==
    IF Contradiction(where) THEN Begin(h, ix)
    ELSE DeleteCandidates(Begin(h, ix), Candidates(h, ix, where), where)

\* update_all, collect_target on a decoded row
Target(loc, where, current_values) ==
    IF Matches(where, current_values)
    THEN <<[location |-> loc, current_values |-> current_values]>>
    ELSE <<>>

\* update_all: a candidate was read
collect_target(loc, where, rd) ==
    IF rd.ok THEN Target(loc, where, decode_row_values(rd.payload)) ELSE <<>>

RECURSIVE collect_targets(_, _, _)
\* update_all, collect_target over the candidates (or the heap scan)
collect_targets(h, locs, where) ==
    IF locs = <<>> THEN <<>>
    ELSE collect_target(Head(locs), where, HeapRead(h, Head(locs)))
             \o collect_targets(h, Tail(locs), where)

RECURSIVE UpdateIndexEntries(_, _, _, _, _, _)
\* update_all: the rest of the loop over index_contexts once tree.Insert of the
\* new entry is back
NewEntryInserted(i, current_values, new_values, old_record_id, new_record_id, r) ==
    IF r.err # "OK" THEN r
    ELSE UpdateIndexEntries(r.indexes, i + 1, current_values, new_values,
                            old_record_id, new_record_id)

\* update_all: tree.Remove of the old entry is back with rm = [tree, status]
OldEntryRemoved(ix, i, current_values, new_values, old_record_id, new_record_id, rm) ==
    IF rm.status # "OK" THEN IndexResult(ix, i, rm)
    ELSE NewEntryInserted(i, current_values, new_values, old_record_id, new_record_id,
             IndexResult(ix, i, Insert(rm.tree, build_index_key(IndexCatalog[i], new_values),
                                       new_record_id)))

\* update_all, the body of the loop over index_contexts given the old key
UpdateIndexAt(ix, i, current_values, new_values, old_record_id, new_record_id, old_key) ==
    IF old_record_id = new_record_id
           /\ old_key = build_index_key(IndexCatalog[i], new_values)
    THEN UpdateIndexEntries(ix, i + 1, current_values, new_values,
                            old_record_id, new_record_id)
    ELSE OldEntryRemoved(ix, i, current_values, new_values, old_record_id, new_record_id,
                         Remove(ix[i], old_key, old_record_id))

\* update_all, the loop over index_contexts for one target: [indexes, err]
UpdateIndexEntries(ix, i, current_values, new_values, old_record_id, new_record_id) ==
    IF i > Len(IndexCatalog) THEN [indexes |-> ix, err |-> "OK"]
    ELSE UpdateIndexAt(ix, i, current_values, new_values, old_record_id, new_record_id,
                       build_index_key(IndexCatalog[i], current_values))

\* update_all: heap.update of a target is back with h = [heap, loc, err]
TargetStored(db, current_values, new_values, old_record_id, h) ==
    IF h.err # "OK"
    THEN Thrown([db EXCEPT !.heap = h.heap], h.err, old_record_id, current_values)
    ELSE RowIndexed(h.heap, current_values, old_record_id,
                    UpdateIndexEntries(db.indexes, 1, current_values, new_values,
                                       old_record_id, make_record_id(h.loc)))

\* update_all: the new values of a target are known
TargetAssigned(db, target, new_values) ==
    TargetStored(db, target.current_values, new_values, make_record_id(target.location),
                 HeapUpdate(db.heap, target.location, encode_values(new_values)))

\* update_all, the body of the loop over the targets; coerce_value_for_column
\* rejects NULL for a NOT NULL column
update_target(db, target, column, value) ==
    IF value.is_null /\ Columns[column].not_null
    THEN Thrown(db, "INVALID_CONSTRAINT", make_record_id(target.location),
                target.current_values)
    ELSE TargetAssigned(db, target, [target.current_values EXCEPT ![column] = value])

RECURSIVE update_targets(_, _, _, _)
\* update_all, the loop over the targets with the assignment column = value
update_targets(db, targets, column, value) ==
    IF targets = <<>> \/ db.err # "OK" THEN db
    ELSE update_targets(update_target(db, Head(targets), column, value),
                        Tail(targets), column, value)

\* update_all once the candidates are known
UpdateCandidates(db, c, column, value, where) ==
    IF c.status # "OK" THEN Thrown(db, c.status, NoRid, <<>>)
    ELSE update_targets(db, collect_targets(db.heap, c.locs, where), column, value)

\* DMLExecutor::update_all
update_all(h, ix, column, value, where) ==
    IF Contradiction(where) THEN Begin(h, ix)
    ELSE UpdateCandidates(Begin(h, ix), Candidates(h, ix, where), column, value, where)

\* the slots of a heap that hold a live row
LiveLocations(h) ==
    {loc \in {HeapLocations(h, 1)[n] : n \in 1..Len(HeapLocations(h, 1))} : HeapRead(h, loc).ok}

\* the live rows of a heap, each with its record id and column values
LiveRows(h) ==
    {[rid |-> make_record_id(loc), values |-> decode_row_values(HeapRead(h, loc).payload)] :
        loc \in LiveLocations(h)}

\* the (index_key, record_id) pairs a heap scan yields for the index at i
HeapIndexPairs(h, i) ==
    {<<build_index_key(IndexCatalog[i], r.values), r.rid>> : r \in LiveRows(h)}

(***************************************************************************)
(* The statements explored on the table                                    *)
(***************************************************************************)
IdLiterals == {Null} \cup {Int32(n) : n \in 1..MaxId}

ALiterals == {Null} \cup {Int32(n) : n \in 1..MaxA}

InsertRowLiterals == {<<i, a>> : i \in IdLiterals, a \in ALiterals}

\* INSERT INTO t VALUES (...) [, (...)]
InsertStatements ==
    {<<r>> : r \in InsertRowLiterals} \cup {<<r, q>> : r \in InsertRowLiterals, q \in InsertRowLiterals}

\* SET column = literal
Assignments ==
    {[column |-> 1, value |-> v] : v \in IdLiterals}
        \cup {[column |-> 2, value |-> v] : v \in ALiterals}

WhereClauses ==
    {NoWhere} \cup {WhereEq(1, n) : n \in 1..MaxId} \cup {WhereEq(2, n) : n \in 1..MaxA}

\* CREATE TABLE and CREATE INDEX leave an empty root page and empty trees
EmptyHeap == <<<<>>>>

EmptyIndexes == [i \in 1..Len(IndexCatalog) |-> NewTree(IndexCatalog[i].is_unique)]

NoStatement == [kind |-> "none", status |-> "OK", rid |-> NoRid, values |-> <<>>]


(***************************************************************************)
(* PageManager and CatalogManager.                                         *)
(*                                                                         *)
(* pm = [pages, free_list, next_table_id, next_index_id, pin_count,        *)
(* page_rows]: pages is the database file (page id = position), a page     *)
(* being [type, slots,                                                     *)
(* next_page_id]; page 1 is the metadata page, pages 2..4 the catalog's    *)
(* tables, columns and indexes pages, whose slots are catalog rows; a heap *)
(* page's slots are a slot directory as above.  pin_count is kept for the  *)
(* catalog pages, page_rows is the number of rows a catalog page has room  *)
(* for.                                                                    *)
(*                                                                         *)
(* catalog = [tables_cache, indexes_cache]: CatalogManager's in-memory     *)
(* copies.  trees maps an index_id to the B+ tree of its index file.       *)
(*                                                                         *)
(* A DDL statement runs on s = [pm, catalog, trees, err, evict]: err is    *)
(* the status it has ended with so far ("OK" while it runs), evict tells   *)
(* whether the buffer pool drops a frame that was changed and unpinned     *)
(* clean before the page is read again.                                    *)
(***************************************************************************)
\* the first page ids new_page hands to CatalogManager::ensure_catalog_pages
TABLES_ROOT == 2

COLUMNS_ROOT == 3

INDEXES_ROOT == 4

CatalogPages == {TABLES_ROOT, COLUMNS_ROOT, INDEXES_ROOT}

\* rows a catalog page has room for in the DDL statements below, scaled (a
\* 4096-byte page in the code)
CATALOG_PAGE_ROWS == 3

\* Page::init
FreshPage == [type |-> "DATA", slots |-> <<>>, next_page_id |-> INVALID_PAGE_ID]

\* the database file once the catalog pages exist
FreshFile ==
    <<[type |-> "METADATA", slots |-> <<>>, next_page_id |-> INVALID_PAGE_ID],
      FreshPage, FreshPage, FreshPage>>

\* PageManager::new_page: the page id it returns
NewPageId(p) == IF p.free_list # <<>> THEN Head(p.free_list) ELSE Len(p.pages) + 1

\* PageManager::new_page: a page of the free list, or a page more in the file
new_page(p) ==
    IF p.free_list # <<>>
    THEN [p EXCEPT !.pages[Head(p.free_list)] = FreshPage, !.free_list = Tail(@)]
    ELSE [p EXCEPT !.pages = Append(@, FreshPage)]

\* PageManager::free_page: the header type is zeroed, the body stays
free_page(p, page_id) ==
    [p EXCEPT !.pages[page_id].type = "FREE", !.free_list = <<page_id>> \o @]

\* PageManager::fetch and PageManager::unpin on the page's frame
Fetch(s, page_id) == [s EXCEPT !.pm.pin_count[page_id] = @ + 1]

Unpin(s, page_id) == [s EXCEPT !.pm.pin_count[page_id] = @ - 1]

\* a statement that has thrown keeps the status it threw
Throw(s, err) == [s EXCEPT !.err = err]

\* for_each_slot: the rows of a catalog page, in slot order
SlotsOf(s, page_id) == s.pm.pages[page_id].slots

\* persist_table_entry, persist_column_entry and persist_index_entry: when
\* Page::insert refuses, the frame is unpinned before the throw and once more
\* by the catch block
persist_entry(s, root, entry) ==
    IF s.err # "OK" THEN s
    ELSE IF Len(SlotsOf(s, root)) >= s.pm.page_rows
    THEN Throw(Unpin(Unpin(Fetch(s, root), root), root), "PAGE_FULL")
    ELSE Unpin([Fetch(s, root) EXCEPT !.pm.pages[root].slots = Append(@, entry)], root)

persist_table_entry(s, entry) == persist_entry(s, TABLES_ROOT, entry)

persist_column_entry(s, entry) == persist_entry(s, COLUMNS_ROOT, entry)

persist_index_entry(s, entry) == persist_entry(s, INDEXES_ROOT, entry)

\* rewrite_tables_page, rewrite_columns_page and rewrite_indexes_page:
\* Page::init, then one insert per entry; when an insert is refused the frame
\* holds the entries that went in and is unpinned clean
rewrite_page(s, root, entries) ==
    IF s.err # "OK" THEN s
    ELSE IF Len(entries) > s.pm.page_rows
    THEN Throw(Unpin([Fetch(s, root) EXCEPT
                         !.pm.pages[root].slots =
                             IF s.evict THEN @ ELSE SubSeq(entries, 1, s.pm.page_rows)],
                     root),
               "PAGE_FULL")
    ELSE Unpin([Fetch(s, root) EXCEPT !.pm.pages[root].slots = entries], root)

rewrite_tables_page(s, entries) == rewrite_page(s, TABLES_ROOT, entries)

rewrite_columns_page(s, entries) == rewrite_page(s, COLUMNS_ROOT, entries)

rewrite_indexes_page(s, entries) == rewrite_page(s, INDEXES_ROOT, entries)

\* column_entry_less: table_id, active before dropped, ordinal_position,
\* column_id
column_entry_less(a, b) ==
    IF a.table_id # b.table_id THEN a.table_id < b.table_id
    ELSE IF a.is_dropped # b.is_dropped THEN ~a.is_dropped
    ELSE IF a.ordinal_position # b.ordinal_position
    THEN a.ordinal_position < b.ordinal_position
    ELSE a.column_id < b.column_id

\* std::string's order on the index names of the model
IndexNames == <<"a_pk", "b_pk", "i">>

NameRank(name) == CHOOSE r \in 1..Len(IndexNames) : IndexNames[r] = name

\* the comparison load_indexes_cache and create_index sort by
index_entry_less(a, b) ==
    IF a.table_id # b.table_id THEN a.table_id < b.table_id
    ELSE NameRank(a.name) < NameRank(b.name)

\* CatalogManager::read_all_columns()
read_all_columns(s) == SortSeq(SlotsOf(s, COLUMNS_ROOT), column_entry_less)

\* CatalogManager::read_all_columns(table_id)
read_table_columns(s, table_id) ==
    SortSeq(SelectSeq(SlotsOf(s, COLUMNS_ROOT), LAMBDA e : e.table_id = table_id),
            column_entry_less)

\* CatalogManager::get_columns: the active columns, by ordinal_position
get_columns(s, table_id) ==
    SelectSeq(read_table_columns(s, table_id), LAMBDA e : ~e.is_dropped)

\* CatalogManager::read_all_indexes
read_all_indexes(s) == SortSeq(SlotsOf(s, INDEXES_ROOT), index_entry_less)

\* CatalogManager::table_exists
table_exists(s, name) ==
    \E i \in 1..Len(s.catalog.tables_cache) : s.catalog.tables_cache[i].name = name

\* CatalogManager::get_table(name); the caller has checked table_exists
get_table(s, name) ==
    s.catalog.tables_cache[
        FirstIn({i \in 1..Len(s.catalog.tables_cache) : s.catalog.tables_cache[i].name = name},
                0)]

\* CatalogManager::index_exists
index_exists(s, name) ==
    \E i \in 1..Len(s.catalog.indexes_cache) : s.catalog.indexes_cache[i].name = name

\* CatalogManager::get_index(name); the caller has checked index_exists
get_index(s, name) ==
    s.catalog.indexes_cache[
        FirstIn({i \in 1..Len(s.catalog.indexes_cache) :
                     s.catalog.indexes_cache[i].name = name},
                0)]

\* CatalogManager::get_indexes: the table's indexes, in cache order
get_indexes(s, table_id) ==
    SelectSeq(s.catalog.indexes_cache, LAMBDA e : e.table_id = table_id)

(***************************************************************************)
(* CatalogManager: tables, columns and indexes                             *)
(***************************************************************************)
\* config::MAX_COLUMNS_PER_TABLE, scaled
MAX_COLUMNS_PER_TABLE == 3

\* TableCatalogEntry::from_table_def
TableEntry(table_id, def, root_page_id) ==
    [table_id |-> table_id, name |-> def.name, root_page_id |-> root_page_id,
     schema_version |-> 1, next_column_id |-> Len(def.columns) + 1]

\* a ColumnCatalogEntry over a ColumnDef
ColumnEntry(table_id, column_id, ordinal_position, schema_version, column) ==
    [table_id |-> table_id, column_id |-> column_id,
     ordinal_position |-> ordinal_position, schema_version |-> schema_version,
     is_dropped |-> FALSE, name |-> column.name,
     primary_key |-> column.primary_key, not_null |-> column.not_null,
     unique |-> column.unique,
     has_default |-> column.has_default, default_value |-> column.default_value]

RECURSIVE PersistColumns(_, _, _, _)
\* create_table's loop over def.columns, from the i-th on
PersistColumns(s, table_id, columns, i) ==
    IF i > Len(columns) \/ s.err # "OK" THEN s
    ELSE PersistColumns(
             persist_column_entry(s, ColumnEntry(table_id, i, i - 1, 1, columns[i])),
             table_id, columns, i + 1)

\* tables_cache_.push_back once persist_table_entry is back
TableCached(s, entry) ==
    IF s.err # "OK" THEN s ELSE [s EXCEPT !.catalog.tables_cache = Append(@, entry)]

\* CatalogManager::create_table: the table row, the cache, then the column
\* rows one by one
create_table(s, def, root_page_id) ==
    IF s.err # "OK" THEN s
    ELSE IF table_exists(s, def.name) THEN Throw(s, "TABLE_EXISTS")
    ELSE PersistColumns(
             TableCached(
                 persist_table_entry([s EXCEPT !.pm.next_table_id = @ + 1],
                                     TableEntry(s.pm.next_table_id, def, root_page_id)),
                 TableEntry(s.pm.next_table_id, def, root_page_id)),
             s.pm.next_table_id, def.columns, 1)

\* indexes_cache_ = index_filtered once rewrite_indexes_page is back
IndexCacheSet(s, entries) ==
    IF s.err # "OK" THEN s ELSE [s EXCEPT !.catalog.indexes_cache = entries]

\* drop_table: the index rows of the other tables stay
IndexRowsDropped(s, table_id) ==
    IF s.err # "OK" THEN s
    ELSE IndexCacheSet(
             rewrite_indexes_page(
                 s, SelectSeq(read_all_indexes(s), LAMBDA e : e.table_id # table_id)),
             SelectSeq(read_all_indexes(s), LAMBDA e : e.table_id # table_id))

\* a drop_table that leaves the rows of columns dropped earlier
ColumnRowsDroppedActive(s, table_id) ==
    IF s.err # "OK" THEN s
    ELSE rewrite_columns_page(
             s, SelectSeq(read_all_columns(s),
                          LAMBDA e : e.table_id # table_id \/ e.is_dropped))

\* drop_table: the column rows of the other tables stay
ColumnRowsDropped(s, table_id) ==
    IF s.err # "OK" THEN s
    ELSE rewrite_columns_page(
             s, SelectSeq(read_all_columns(s), LAMBDA e : e.table_id # table_id))

\* drop_table: tables_cache_.erase, then rewrite_tables_page(tables_cache_)
TableRowDropped(s, table_id) ==
    rewrite_tables_page(
        [s EXCEPT !.catalog.tables_cache = SelectSeq(@, LAMBDA e : e.table_id # table_id)],
        SelectSeq(s.catalog.tables_cache, LAMBDA e : e.table_id # table_id))

\* CatalogManager::drop_table
drop_table(s, name) ==
    IF s.err # "OK" \/ ~table_exists(s, name) THEN s
    ELSE IndexRowsDropped(
             ColumnRowsDropped(TableRowDropped(s, get_table(s, name).table_id),
                               get_table(s, name).table_id),
             get_table(s, name).table_id)

\* the table's cache entry, by id
TableById(s, table_id) ==
    s.catalog.tables_cache[
        FirstIn({i \in 1..Len(s.catalog.tables_cache) :
                     s.catalog.tables_cache[i].table_id = table_id},
                0)]

\* the cache with the table's entry replaced
TablesWith(s, entry) ==
    [i \in 1..Len(s.catalog.tables_cache) |->
        IF s.catalog.tables_cache[i].table_id = entry.table_id
        THEN entry ELSE s.catalog.tables_cache[i]]

\* the table entry is changed in the cache, then rewrite_tables_page
TableUpdated(s, entry) ==
    IF s.err # "OK" THEN s
    ELSE rewrite_tables_page([s EXCEPT !.catalog.tables_cache = TablesWith(s, entry)],
                             TablesWith(s, entry))

\* CatalogManager::set_table_root
set_table_root(s, table_id, root_page_id) ==
    IF s.err # "OK" THEN s
    ELSE TableUpdated(s, [TableById(s, table_id) EXCEPT !.root_page_id = root_page_id])

\* an add_column that moves up only the columns after insert_pos
ShiftedAfter(all_columns, table_id, insert_pos, new_schema_version) ==
    [i \in 1..Len(all_columns) |->
        IF all_columns[i].table_id # table_id THEN all_columns[i]
        ELSE [all_columns[i] EXCEPT
                 !.ordinal_position =
                     IF ~all_columns[i].is_dropped /\ @ > insert_pos THEN @ + 1 ELSE @,
                 !.schema_version = new_schema_version]]

\* add_column: the table's rows take the new schema_version, the active ones
\* at or after insert_pos move up
ShiftedForAdd(all_columns, table_id, insert_pos, new_schema_version) ==
    [i \in 1..Len(all_columns) |->
        IF all_columns[i].table_id # table_id THEN all_columns[i]
        ELSE [all_columns[i] EXCEPT
                 !.ordinal_position =
                     IF ~all_columns[i].is_dropped /\ @ >= insert_pos THEN @ + 1 ELSE @,
                 !.schema_version = new_schema_version]]

\* add_column from the new entry on: the columns page, then the table entry
ColumnAdded(s, table, new_entry) ==
    TableUpdated(
        rewrite_columns_page(
            s,
            SortSeq(Append(ShiftedForAdd(read_all_columns(s), table.table_id,
                                         new_entry.ordinal_position,
                                         new_entry.schema_version),
                           new_entry),
                    column_entry_less)),
        [table EXCEPT !.schema_version = new_entry.schema_version,
                      !.next_column_id = new_entry.column_id + 1])

\* position.value_or(active_count)
NoPosition == 0 - 1

\* add_column once the active columns are counted
AddColumnAt(s, table, column, insert_pos, active_count) ==
    IF active_count >= MAX_COLUMNS_PER_TABLE \/ insert_pos > active_count
    THEN Throw(s, "INVALID_CONSTRAINT")
    ELSE ColumnAdded(s, table,
                     ColumnEntry(table.table_id, table.next_column_id, insert_pos,
                                 table.schema_version + 1, column))

\* CatalogManager::add_column
add_column(s, table_id, column, position) ==
    IF s.err # "OK" THEN s
    ELSE IF column.primary_key THEN Throw(s, "INVALID_CONSTRAINT")
    ELSE IF \E i \in 1..Len(get_columns(s, table_id)) :
                get_columns(s, table_id)[i].name = column.name
    THEN Throw(s, "DUPLICATE_COLUMN")
    ELSE AddColumnAt(s, TableById(s, table_id), column,
                     IF position = NoPosition THEN Len(get_columns(s, table_id))
                     ELSE position,
                     Len(get_columns(s, table_id)))

\* a drop_column that leaves the other columns where they were
DroppedNotRenumbered(all_columns, table_id, target, new_schema_version) ==
    [i \in 1..Len(all_columns) |->
        IF all_columns[i].table_id # table_id THEN all_columns[i]
        ELSE IF i = target
        THEN [all_columns[i] EXCEPT !.is_dropped = TRUE,
                                    !.schema_version = new_schema_version,
                                    !.ordinal_position = 2147483647]
        ELSE [all_columns[i] EXCEPT !.schema_version = new_schema_version]]

\* drop_column: the rows of the table take the new schema_version, the target
\* is marked dropped (its ordinal_position the largest value of the type,
\* here of a 31-bit integer), the other active ones are numbered again from 0
RenumberedForDrop(all_columns, table_id, target, new_schema_version) ==
    [i \in 1..Len(all_columns) |->
        IF all_columns[i].table_id # table_id THEN all_columns[i]
        ELSE IF i = target
        THEN [all_columns[i] EXCEPT !.is_dropped = TRUE,
                                    !.schema_version = new_schema_version,
                                    !.ordinal_position = 2147483647]
        ELSE [all_columns[i] EXCEPT
                 !.schema_version = new_schema_version,
                 !.ordinal_position =
                     IF all_columns[i].is_dropped THEN @
                     ELSE Cardinality({j \in 1..(i - 1) :
                                          /\ j # target
                                          /\ all_columns[j].table_id = table_id
                                          /\ ~all_columns[j].is_dropped})]]

\* a drop_column that writes the table entry back as it was
ColumnDroppedAtSameVersion(s, table, all_columns, target) ==
    IF all_columns[target].primary_key THEN Throw(s, "INVALID_CONSTRAINT")
    ELSE IF \A j \in 1..Len(all_columns) :
                j = target \/ all_columns[j].table_id # table.table_id
                    \/ all_columns[j].is_dropped
    THEN Throw(s, "INVALID_CONSTRAINT")
    ELSE TableUpdated(
             rewrite_columns_page(
                 s,
                 SortSeq(RenumberedForDrop(all_columns, table.table_id, target,
                                           table.schema_version + 1),
                         column_entry_less)),
             table)

\* drop_column with target_index found
ColumnDroppedAt(s, table, all_columns, target) ==
    IF all_columns[target].primary_key THEN Throw(s, "INVALID_CONSTRAINT")
    ELSE IF \A j \in 1..Len(all_columns) :
                j = target \/ all_columns[j].table_id # table.table_id
                    \/ all_columns[j].is_dropped
    THEN Throw(s, "INVALID_CONSTRAINT")
    ELSE TableUpdated(
             rewrite_columns_page(
                 s,
                 SortSeq(RenumberedForDrop(all_columns, table.table_id, target,
                                           table.schema_version + 1),
                         column_entry_less)),
             [table EXCEPT !.schema_version = @ + 1])

\* drop_column: target_index is the last active column of that name
ColumnTarget(all_columns, table_id, column_name) ==
    {i \in 1..Len(all_columns) :
        /\ all_columns[i].table_id = table_id
        /\ ~all_columns[i].is_dropped
        /\ all_columns[i].name = column_name}

\* CatalogManager::drop_column
drop_column(s, table_id, column_name) ==
    IF s.err # "OK" THEN s
    ELSE IF ColumnTarget(read_all_columns(s), table_id, column_name) = {}
    THEN Throw(s, "COLUMN_NOT_FOUND")
    ELSE ColumnDroppedAt(
             s, TableById(s, table_id), read_all_columns(s),
             CHOOSE i \in ColumnTarget(read_all_columns(s), table_id, column_name) :
                 \A j \in ColumnTarget(read_all_columns(s), table_id, column_name) : j <= i)

\* create_index: persist_index_entry, then the cache, sorted
IndexCached(s, entry) ==
    IF s.err # "OK" THEN s
    ELSE [s EXCEPT !.catalog.indexes_cache = SortSeq(Append(@, entry), index_entry_less)]

\* CatalogManager::create_index; the entry it returns has index_id
\* s.pm.next_index_id
create_index(s, entry) ==
    IF s.err # "OK" THEN s
    ELSE IF index_exists(s, entry.name) THEN Throw(s, "DUPLICATE_KEY")
    ELSE IndexCached(
             persist_index_entry([s EXCEPT !.pm.next_index_id = @ + 1],
                                 [entry EXCEPT !.index_id = s.pm.next_index_id]),
             [entry EXCEPT !.index_id = s.pm.next_index_id])

\* the cache with the index's root replaced
IndexesWithRoot(s, index_id, root_page_id) ==
    [i \in 1..Len(s.catalog.indexes_cache) |->
        IF s.catalog.indexes_cache[i].index_id = index_id
        THEN [s.catalog.indexes_cache[i] EXCEPT !.root_page_id = root_page_id]
        ELSE s.catalog.indexes_cache[i]]

\* CatalogManager::set_index_root
set_index_root(s, index_id, root_page_id) ==
    IF s.err # "OK" THEN s
    ELSE IF \A i \in 1..Len(s.catalog.indexes_cache) :
                s.catalog.indexes_cache[i].index_id # index_id
    THEN Throw(s, "INDEX_NOT_FOUND")
    ELSE rewrite_indexes_page(
             [s EXCEPT !.catalog.indexes_cache = IndexesWithRoot(s, index_id, root_page_id)],
             IndexesWithRoot(s, index_id, root_page_id))

\* drop_index without rewrite_indexes_page: the entry leaves the cache and
\* stays on the page
drop_index_cache_only(s, name) ==
    IF s.err # "OK" \/ ~index_exists(s, name) THEN s
    ELSE [s EXCEPT !.catalog.indexes_cache = SelectSeq(@, LAMBDA e : e.name # name)]

\* CatalogManager::drop_index
drop_index(s, name) ==
    IF s.err # "OK" \/ ~index_exists(s, name) THEN s
    ELSE rewrite_indexes_page(
             [s EXCEPT !.catalog.indexes_cache = SelectSeq(@, LAMBDA e : e.name # name)],
             SelectSeq(s.catalog.indexes_cache, LAMBDA e : e.name # name))

(***************************************************************************)
(* TableHeap over the page file, and TableHeapMigration                    *)
(***************************************************************************)
RECURSIVE Chain(_, _, _)
\* the page ids find_tail and scan walk from page_id on by next_page_id; n
\* bounds the walk by the size of the file
Chain(pages, page_id, n) ==
    IF page_id < 1 \/ page_id > Len(pages) \/ n = 0 THEN <<>>
    ELSE <<page_id>> \o Chain(pages, pages[page_id].next_page_id, n - 1)

\* the chain of the heap rooted at root
ChainOf(p, root) == Chain(p.pages, root, Len(p.pages))

\* the slot directories of a chain, the root's first
HeapOf(p, chain) == [i \in 1..Len(chain) |-> p.pages[chain[i]].slots]

\* TableHeap::insert and append_new_page on the page file, with
\* r = [heap, loc, err] what they did to the chain's pages: the tail page
\* took the row, or a page from new_page did and the tail links to it
HeapStored(p, chain, r) ==
    IF r.err # "OK" THEN p
    ELSE IF Len(r.heap) = Len(chain)
    THEN [p EXCEPT !.pages[chain[Len(chain)]].slots = r.heap[Len(chain)]]
    ELSE [new_page(p) EXCEPT !.pages[NewPageId(p)].slots = r.heap[Len(r.heap)],
                             !.pages[chain[Len(chain)]].next_page_id = NewPageId(p)]

\* the RowLocation TableHeap::insert returns
HeapLoc(p, chain, r) ==
    IF r.err # "OK" THEN r.loc
    ELSE [page_id |-> IF r.loc.page_id <= Len(chain) THEN chain[r.loc.page_id]
                      ELSE NewPageId(p),
          slot |-> r.loc.slot]

InsertInChain(p, chain, r) ==
    [pm |-> HeapStored(p, chain, r), loc |-> HeapLoc(p, chain, r), err |-> r.err]

\* TableHeap::insert on the heap whose pages are chain
InsertIn(p, chain, payload) ==
    InsertInChain(p, chain, HeapInsert(HeapOf(p, chain), payload))

\* TableHeap(pm, root).insert(payload): [pm, loc, err]
TableHeapInsert(p, root, payload) == InsertIn(p, ChainOf(p, root), payload)

RECURSIVE ScanPage(_, _, _)
\* Iterator::advance within a page: the slots Page::read accepts
ScanPage(page_id, slots, slot) ==
    IF slot >= Len(slots) THEN <<>>
    ELSE (IF slots[slot + 1].tombstone THEN <<>>
          ELSE <<[loc |-> [page_id |-> page_id, slot |-> slot],
                  payload |-> slots[slot + 1].payload]>>)
         \o ScanPage(page_id, slots, slot + 1)

RECURSIVE ScanChain(_, _)
ScanChain(pages, chain) ==
    IF chain = <<>> THEN <<>>
    ELSE ScanPage(Head(chain), pages[Head(chain)].slots, 0) \o ScanChain(pages, Tail(chain))

\* TableHeap::scan: [loc, payload] of every live row, in page order then slot
\* order
HeapScan(p, root) == ScanChain(p.pages, ChainOf(p, root))

RECURSIVE FreeAll(_, _)
FreeAll(p, chain) ==
    IF chain = <<>> THEN p ELSE FreeAll(free_page(p, Head(chain)), Tail(chain))

\* TableHeapMigration::free_chain
free_chain(p, root_page_id) == FreeAll(p, ChainOf(p, root_page_id))

\* the sort rewrite applies to both schemas
ordinal_less(a, b) == a.ordinal_position < b.ordinal_position

\* no default: defaults.find fails for every column
NoDefault == [has |-> FALSE, column_id |-> 0, value |-> Null]

\* a rewrite that takes the old value at the new column's own position
NewFieldAtOrdinal(column, decoded, old_sorted, defaults, pos) ==
    IF column.ordinal_position < Len(decoded)
    THEN [ok |-> TRUE, field |-> decoded[column.ordinal_position + 1]]
    ELSE [ok |-> ~column.not_null, field |-> Null]

\* rewrite, one column of new_sorted for one row: the old value by
\* column_id, else the default through field_from_value, else NULL when the
\* column allows it; [ok, field]
NewField(column, decoded, old_sorted, defaults, pos) ==
    IF pos # 0 THEN [ok |-> TRUE, field |-> decoded[pos]]
    ELSE IF defaults.has /\ defaults.column_id = column.column_id
    THEN [ok |-> ~(defaults.value.is_null /\ column.not_null), field |-> defaults.value]
    ELSE [ok |-> ~column.not_null, field |-> Null]

NewFields(decoded, old_sorted, new_sorted, defaults) ==
    [c \in 1..Len(new_sorted) |->
        NewField(new_sorted[c], decoded, old_sorted, defaults,
                 FirstIn({i \in 1..Len(old_sorted) :
                              old_sorted[i].column_id = new_sorted[c].column_id},
                         0))]

RECURSIVE MigrateRows(_, _, _, _, _, _)
\* dest.insert of a row is back with r = [pm, loc, err]
RowMigrated(r, dest_root, rows, old_sorted, new_sorted, defaults) ==
    IF r.err # "OK" THEN [pm |-> r.pm, err |-> r.err]
    ELSE MigrateRows(r.pm, dest_root, rows, old_sorted, new_sorted, defaults)

\* the scan callback of rewrite with the new fields of the row
RowRebuilt(p, dest_root, rows, old_sorted, new_sorted, defaults, fields) ==
    IF \E c \in 1..Len(fields) : ~fields[c].ok
    THEN [pm |-> p, err |-> "INVALID_CONSTRAINT"]
    ELSE RowMigrated(
             TableHeapInsert(p, dest_root,
                             RecordEncode([c \in 1..Len(fields) |-> fields[c].field])),
             dest_root, Tail(rows), old_sorted, new_sorted, defaults)

\* rewrite, source.scan over the rows left: [pm, err]
MigrateRows(p, dest_root, rows, old_sorted, new_sorted, defaults) ==
    IF rows = <<>> THEN [pm |-> p, err |-> "OK"]
    ELSE IF Len(RecordDecode(Head(rows).payload)) # Len(old_sorted)
    THEN [pm |-> p, err |-> "INVALID_RECORD_FORMAT"]
    ELSE RowRebuilt(p, dest_root, rows, old_sorted, new_sorted, defaults,
                    NewFields(RecordDecode(Head(rows).payload), old_sorted, new_sorted,
                              defaults))

Rewritten(new_root, r) == [pm |-> r.pm, root |-> new_root, err |-> r.err]

\* TableHeapMigration::rewrite: [pm, root, err]; the new root comes from
\* new_page before the source heap is opened
rewrite(p, source_root, old_schema, new_schema, defaults) ==
    IF p.pages[source_root].type # "DATA"
    THEN [pm |-> new_page(p), root |-> NewPageId(p), err |-> "INVALID_PAGE_TYPE"]
    ELSE Rewritten(NewPageId(p),
                   MigrateRows(new_page(p), NewPageId(p), HeapScan(p, source_root),
                               SortSeq(old_schema, ordinal_less),
                               SortSeq(new_schema, ordinal_less), defaults))

\* the schema with ordinal_position counted again from 0
Renumbered(schema) ==
    [i \in 1..Len(schema) |-> [schema[i] EXCEPT !.ordinal_position = i - 1]]

\* TableHeapMigration::add_column: the new column goes before the first old
\* one whose ordinal_position is not below its own, else last
WithColumn(old_schema, new_column, at) ==
    Renumbered(SubSeq(old_schema, 1, at - 1) \o <<new_column>>
                   \o SubSeq(old_schema, at, Len(old_schema)))

migration_add_column(p, source_root, old_schema, new_column, default_value) ==
    rewrite(p, source_root, old_schema,
            WithColumn(old_schema, new_column,
                       FirstIn({i \in 1..Len(old_schema) :
                                    old_schema[i].ordinal_position
                                        >= new_column.ordinal_position},
                               Len(old_schema) + 1)),
            IF default_value.has
            THEN [has |-> TRUE, column_id |-> new_column.column_id,
                  value |-> default_value.value]
            ELSE NoDefault)

\* TableHeapMigration::drop_column; the caller found drop_column_id among
\* the old columns, of which there are two or more
migration_drop_column(p, source_root, old_schema, drop_column_id) ==
    rewrite(p, source_root, old_schema,
            Renumbered(SelectSeq(old_schema, LAMBDA c : c.column_id # drop_column_id)),
            NoDefault)

(***************************************************************************)
(* IndexManager and DDLExecutor                                            *)
(***************************************************************************)
\* no index file under this index_id
NoFile == [pages |-> <<>>, root_page_id |-> INVALID_PAGE_ID, unique_ |-> FALSE]

\* the index files with the file of index_id replaced
TreesWith(files, index_id, t) ==
    [i \in 1..(IF index_id > Len(files) THEN index_id ELSE Len(files)) |->
        IF i = index_id THEN t ELSE IF i <= Len(files) THEN files[i] ELSE NoFile]

\* FileManager::exists(index_path(index_id))
HasFile(s, index_id) == index_id <= Len(s.trees) /\ s.trees[index_id] # NoFile

\* IndexManager::CreateIndex with entry.root_page_id == INVALID_PAGE_ID: a new
\* file whose tree is an empty leaf root
CreateIndex(s, index_id, is_unique) ==
    IF s.err # "OK" THEN s
    ELSE [s EXCEPT !.trees = TreesWith(@, index_id, NewTree(is_unique))]

\* IndexManager::DropIndex: the file is removed when it exists
DropIndex(s, index_id) ==
    IF s.err # "OK" \/ ~HasFile(s, index_id) THEN s
    ELSE [s EXCEPT !.trees = TreesWith(@, index_id, NoFile)]

\* DDLExecutor::map_constraint within map_column
map_column(column_ast) ==
    [name |-> column_ast.name,
     primary_key |-> column_ast.primary_key,
     not_null |-> column_ast.not_null \/ column_ast.primary_key,
     unique |-> column_ast.unique \/ column_ast.primary_key,
     has_default |-> column_ast.has_default,
     default_value |-> column_ast.default_value]

\* normalize_identifier: the name with its letters in upper case
normalize_identifier(name) ==
    CASE name = "x" -> "X"
      [] name = "y" -> "Y"
      [] name = "z" -> "Z"
      [] OTHER -> name

\* the positions of the columns named in a statement
ColumnNamed(columns, name) ==
    FirstIn({c \in 1..Len(columns) : columns[c].name = name}, 0)

\* create_index_from_ast: the first column of that name, letter case ignored
ColumnNamedAnyCase(columns, name) ==
    FirstIn({c \in 1..Len(columns) :
                normalize_identifier(columns[c].name) = normalize_identifier(name)}, 0)

\* the position of a column id among the active columns (build_column_lookup)
ColumnWithId(columns, column_id) ==
    FirstIn({c \in 1..Len(columns) : columns[c].column_id = column_id}, 0)

\* create_index_from_ast from catalog_.create_index on: the index file, then
\* its root in the catalog
IndexFileCreated(s, index_id, is_unique) ==
    IF s.err # "OK" THEN s
    ELSE set_index_root(CreateIndex(s, index_id, is_unique), index_id,
                        NewTree(is_unique).root_page_id)

\* create_index_from_ast with the table and its active columns
IndexOnColumns(s, stmt, is_primary, table, columns) ==
    IF stmt.column_names = <<>> THEN Throw(s, "SYNTAX_ERROR")
    ELSE IF \E n \in 1..Len(stmt.column_names) :
                ColumnNamedAnyCase(columns, stmt.column_names[n]) = 0
    THEN Throw(s, "COLUMN_NOT_FOUND")
    ELSE IndexFileCreated(
             create_index(
                 s,
                 [index_id |-> 0, table_id |-> table.table_id, name |-> stmt.index_name,
                  is_unique |-> stmt.unique, is_primary |-> is_primary,
                  column_ids |->
                      [n \in 1..Len(stmt.column_names) |->
                          columns[ColumnNamedAnyCase(columns, stmt.column_names[n])].column_id],
                  root_page_id |-> INVALID_PAGE_ID]),
             s.pm.next_index_id, stmt.unique)

\* DDLExecutor::create_index_from_ast
create_index_from_ast(s, stmt, is_primary) ==
    IF s.err # "OK" THEN s
    ELSE IF index_exists(s, stmt.index_name)
    THEN (IF stmt.if_not_exists THEN s ELSE Throw(s, "INVALID_CONSTRAINT"))
    ELSE IF ~table_exists(s, stmt.table_name) THEN Throw(s, "TABLE_NOT_FOUND")
    ELSE IndexOnColumns(s, stmt, is_primary, get_table(s, stmt.table_name),
                        get_columns(s, get_table(s, stmt.table_name).table_id))

\* the name CREATE TABLE gives the index of the primary key
PkIndexName(table_name) == table_name \o "_pk"

\* the primary-key column of a column list (position, 0 when none)
PrimaryKeyOf(columns) == FirstIn({c \in 1..Len(columns) : columns[c].primary_key}, 0)

\* create_from_ast after catalog_.create_table: the index of the primary key
PrimaryKeyIndexed(s, stmt) ==
    IF s.err # "OK" \/ PrimaryKeyOf(stmt.columns) = 0 THEN s
    ELSE create_index_from_ast(
             s,
             [index_name |-> PkIndexName(stmt.table_name), unique |-> TRUE,
              table_name |-> stmt.table_name,
              column_names |-> <<stmt.columns[PrimaryKeyOf(stmt.columns)].name>>,
              if_not_exists |-> TRUE],
             TRUE)

\* DDLExecutor::create_from_ast; the table file on disk is outside the model
create_from_ast(s, stmt) ==
    IF stmt.columns = <<>> THEN Throw(s, "SYNTAX_ERROR")
    ELSE IF Len(stmt.columns) > MAX_COLUMNS_PER_TABLE THEN Throw(s, "INVALID_CONSTRAINT")
    ELSE IF \E i, j \in 1..Len(stmt.columns) :
                /\ i < j
                /\ normalize_identifier(stmt.columns[i].name)
                       = normalize_identifier(stmt.columns[j].name)
    THEN Throw(s, "DUPLICATE_COLUMN")
    ELSE IF \E i, j \in 1..Len(stmt.columns) :
                i < j /\ stmt.columns[i].primary_key /\ stmt.columns[j].primary_key
    THEN Throw(s, "INVALID_CONSTRAINT")
    ELSE PrimaryKeyIndexed(
             create_table([s EXCEPT !.pm = new_page(@)],
                          [name |-> stmt.table_name,
                           columns |-> [c \in 1..Len(stmt.columns) |->
                                           map_column(stmt.columns[c])]],
                          NewPageId(s.pm)),
             stmt)

RECURSIVE IndexFilesDropped(_, _)
\* drop_from_ast, the loop over the table's indexes
IndexFilesDropped(s, entries) ==
    IF entries = <<>> THEN s
    ELSE IndexFilesDropped(DropIndex(s, Head(entries).index_id), Tail(entries))

\* drop_from_ast: pm_.free_page(table_entry.root_page_id)
RootFreed(s, root_page_id) ==
    IF s.err # "OK" THEN s ELSE [s EXCEPT !.pm = free_page(@, root_page_id)]

\* drop_from_ast with the table found
TableDropped(s, table) ==
    RootFreed(drop_table(IndexFilesDropped(s, get_indexes(s, table.table_id)), table.name),
              table.root_page_id)

\* DDLExecutor::drop_from_ast
drop_from_ast(s, stmt) ==
    IF ~table_exists(s, stmt.table_name)
    THEN (IF stmt.if_exists THEN s ELSE Throw(s, "TABLE_NOT_FOUND"))
    ELSE TableDropped(s, get_table(s, stmt.table_name))

\* DDLExecutor::drop_index_from_ast
drop_index_from_ast(s, stmt) ==
    IF ~index_exists(s, stmt.index_name)
    THEN (IF stmt.if_exists THEN s ELSE Throw(s, "KEY_NOT_FOUND"))
    ELSE drop_index(DropIndex(s, get_index(s, stmt.index_name).index_id), stmt.index_name)

\* DDLExecutor::encode_index_key over the values of the index's columns
encode_index_key(idx, columns, values) ==
    RecordEncode([n \in 1..Len(idx.column_ids) |->
                     values[ColumnWithId(columns, idx.column_ids[n])]])

\* an index names a column that is not among the active columns
MissingColumn(idx, columns) ==
    \E n \in 1..Len(idx.column_ids) : ColumnWithId(columns, idx.column_ids[n]) = 0

\* tree.Insert or tree.Remove on the file of index_id is back with
\* r = [tree, status]
TreeResult(s, index_id, r) == [s EXCEPT !.trees[index_id] = r.tree, !.err = r.status]

\* catalog_.set_index_root(index_id, tree.root_page_id())
RootRecorded(s, index_id) ==
    IF s.err # "OK" THEN s
    ELSE set_index_root(s, index_id, s.trees[index_id].root_page_id)

RECURSIVE DropMissing(_, _, _)
\* rebuild_table_indexes, the first loop: an index with a column that is no
\* longer active loses its file and its catalog row
DropMissing(s, entries, columns) ==
    IF entries = <<>> \/ s.err # "OK" THEN s
    ELSE DropMissing(
             IF MissingColumn(Head(entries), columns)
             THEN drop_index(DropIndex(s, Head(entries).index_id), Head(entries).name)
             ELSE s,
             Tail(entries), columns)

RECURSIVE RowsReinserted(_, _, _, _)
\* rebuild_table_indexes, the loop over the row snapshots for one index
RowsReinserted(s, idx, columns, rows) ==
    IF rows = <<>> \/ s.err # "OK" THEN s
    ELSE RowsReinserted(
             TreeResult(s, idx.index_id,
                        Insert(s.trees[idx.index_id],
                               encode_index_key(idx, columns,
                                                RecordDecode(Head(rows).payload)),
                               make_record_id(Head(rows).loc))),
             idx, columns, Tail(rows))

\* rebuild_table_indexes, the body of the loop over the indexes left
IndexRebuilt(s, idx, columns, rows) ==
    RootRecorded(
        RowsReinserted(
            set_index_root(CreateIndex(DropIndex(s, idx.index_id), idx.index_id,
                                       idx.is_unique),
                           idx.index_id, NewTree(idx.is_unique).root_page_id),
            idx, columns, rows),
        idx.index_id)

RECURSIVE RebuildEach(_, _, _, _)
RebuildEach(s, entries, columns, rows) ==
    IF entries = <<>> \/ s.err # "OK" THEN s
    ELSE RebuildEach(IndexRebuilt(s, Head(entries), columns, rows), Tail(entries),
                     columns, rows)

\* rebuild_table_indexes once the indexes with a missing column are gone: the
\* heap is scanned, every row decoded against the active columns
RebuildActive(s, table, entries, columns, rows) ==
    IF s.err # "OK" \/ entries = <<>> THEN s
    ELSE IF s.pm.pages[table.root_page_id].type # "DATA"
    THEN Throw(s, "INVALID_PAGE_TYPE")
    ELSE IF \E n \in 1..Len(rows) : Len(RecordDecode(rows[n].payload)) # Len(columns)
    THEN Throw(s, "INVALID_ARGUMENT")
    ELSE RebuildEach(s, entries, columns, rows)

\* rebuild_table_indexes after its first loop
RebuildLeft(s, table) ==
    RebuildActive(s, table, get_indexes(s, table.table_id),
                  get_columns(s, table.table_id), HeapScan(s.pm, table.root_page_id))

\* DDLExecutor::rebuild_table_indexes
rebuild_table_indexes(s, table) ==
    IF s.err # "OK" \/ get_indexes(s, table.table_id) = <<>> THEN s
    ELSE RebuildLeft(DropMissing(s, get_indexes(s, table.table_id),
                                 get_columns(s, table.table_id)),
                     table)

\* alter_table_from_ast: TableHeapMigration::free_chain on the old root
OldChainFreed(s, root_page_id) ==
    IF s.err # "OK" THEN s ELSE [s EXCEPT !.pm = free_chain(@, root_page_id)]

\* alter_table_from_ast: rebuild_table_indexes(*updated_entry)
IndexesRebuilt(s, table_id) ==
    IF s.err # "OK" THEN s ELSE rebuild_table_indexes(s, TableById(s, table_id))

\* alter_table_from_ast once the catalog has the column change: the root is
\* swapped, the old chain freed, the indexes rebuilt
Swapped(s, table, new_root) ==
    IndexesRebuilt(
        OldChainFreed(set_table_root(s, table.table_id, new_root), table.root_page_id),
        table.table_id)

\* alter_table_from_ast, ADD_COLUMN, once TableHeapMigration::add_column is
\* back with m = [pm, root, err]
AddMigrated(s, table, column, m) ==
    IF m.err # "OK" THEN Throw([s EXCEPT !.pm = m.pm], m.err)
    ELSE Swapped(add_column([s EXCEPT !.pm = m.pm], table.table_id, column, NoPosition),
                 table, m.root)

\* alter_table_from_ast, ADD_COLUMN: build_default_value, then the migration
AddColumnTo(s, table, old_columns, column) ==
    IF ~column.has_default /\ column.not_null THEN Throw(s, "INVALID_CONSTRAINT")
    ELSE AddMigrated(
             s, table, column,
             migration_add_column(
                 s.pm, table.root_page_id, old_columns,
                 ColumnEntry(table.table_id, table.next_column_id, Len(old_columns),
                             table.schema_version + 1, column),
                 [has |-> column.has_default, value |-> column.default_value]))

\* DDLExecutor::alter_table_from_ast, ADD_COLUMN
alter_add_column(s, stmt) ==
    IF ~table_exists(s, stmt.table_name) THEN Throw(s, "TABLE_NOT_FOUND")
    ELSE AddColumnTo(s, get_table(s, stmt.table_name),
                     get_columns(s, get_table(s, stmt.table_name).table_id),
                     map_column(stmt.add_column))

\* alter_table_from_ast, DROP_COLUMN, once TableHeapMigration::drop_column is
\* back with m = [pm, root, err]
DropMigrated(s, table, column_name, m) ==
    IF m.err # "OK" THEN Throw([s EXCEPT !.pm = m.pm], m.err)
    ELSE Swapped(drop_column([s EXCEPT !.pm = m.pm], table.table_id, column_name),
                 table, m.root)

\* alter_table_from_ast, DROP_COLUMN, with the table and its active columns
DropColumnOf(s, table, old_columns, column_name, at) ==
    IF Len(old_columns) <= 1 THEN Throw(s, "INVALID_CONSTRAINT")
    ELSE IF at = 0 THEN Throw(s, "COLUMN_NOT_FOUND")
    ELSE IF old_columns[at].primary_key THEN Throw(s, "INVALID_CONSTRAINT")
    ELSE DropMigrated(
             s, table, column_name,
             migration_drop_column(s.pm, table.root_page_id, old_columns,
                                   old_columns[at].column_id))

\* DDLExecutor::alter_table_from_ast, DROP_COLUMN
alter_drop_column(s, stmt) ==
    IF ~table_exists(s, stmt.table_name) THEN Throw(s, "TABLE_NOT_FOUND")
    ELSE DropColumnOf(
             s, get_table(s, stmt.table_name),
             get_columns(s, get_table(s, stmt.table_name).table_id),
             stmt.drop_column_name,
             ColumnNamed(get_columns(s, get_table(s, stmt.table_name).table_id),
                         stmt.drop_column_name))

(***************************************************************************)
(* DMLExecutor on the tables of the catalog: INSERT INTO t VALUES ... and  *)
(* DELETE FROM t, with the table, its columns and its indexes looked up in *)
(* the catalog                                                             *)
(***************************************************************************)
RECURSIVE IndexEntriesInserted(_, _, _, _, _)
\* insert_into, the loop over index_contexts for one row: build_index_key,
\* tree.Insert, catalog_.set_index_root
IndexEntriesInserted(s, entries, columns, row_values, record_id) ==
    IF entries = <<>> \/ s.err # "OK" THEN s
    ELSE IF MissingColumn(Head(entries), columns) THEN Throw(s, "INVALID_ARGUMENT")
    ELSE IndexEntriesInserted(
             RootRecorded(
                 TreeResult(s, Head(entries).index_id,
                            Insert(s.trees[Head(entries).index_id],
                                   encode_index_key(Head(entries), columns, row_values),
                                   record_id)),
                 Head(entries).index_id),
             Tail(entries), columns, row_values, record_id)

\* insert_into: heap.insert of the row is back with h = [pm, loc, err]
RowInHeap(s, entries, columns, row, h) ==
    IF h.err # "OK" THEN Throw([s EXCEPT !.pm = h.pm], h.err)
    ELSE IndexEntriesInserted([s EXCEPT !.pm = h.pm], entries, columns,
                              RecordDecode(RecordEncode(row)), make_record_id(h.loc))

\* insert_into, the body of the loop over stmt.rows; encode_row rejects NULL
\* for a NOT NULL column
TableInsertRow(s, table, columns, entries, row) ==
    IF Len(row) # Len(columns) THEN Throw(s, "INVALID_CONSTRAINT")
    ELSE IF \E c \in 1..Len(row) : row[c].is_null /\ columns[c].not_null
    THEN Throw(s, "INVALID_CONSTRAINT")
    ELSE RowInHeap(s, entries, columns, row,
                   TableHeapInsert(s.pm, table.root_page_id, RecordEncode(row)))

RECURSIVE TableInsertRows(_, _, _, _, _)
TableInsertRows(s, table, columns, entries, rows) ==
    IF rows = <<>> \/ s.err # "OK" THEN s
    ELSE TableInsertRows(TableInsertRow(s, table, columns, entries, Head(rows)),
                         table, columns, entries, Tail(rows))

\* the root the catalog records for an index of the list
RootOf(entries, index_id) ==
    entries[FirstIn({n \in 1..Len(entries) : entries[n].index_id = index_id}, 0)].root_page_id

\* IndexManager::OpenIndex on every index of the list: each tree starts at
\* the root_page_id of its catalog entry
IndexesOpened(s, entries) ==
    [s EXCEPT !.trees =
        [i \in 1..Len(s.trees) |->
            IF \E n \in 1..Len(entries) : entries[n].index_id = i
            THEN [s.trees[i] EXCEPT !.root_page_id = RootOf(entries, i)]
            ELSE s.trees[i]]]

\* the statement has its table: OpenIndex needs every index file, TableHeap
\* a DATA root
TableOpened(s, table, columns, entries) ==
    IF columns = <<>> THEN Throw(s, "INVALID_CONSTRAINT")
    ELSE IF \E n \in 1..Len(entries) : ~HasFile(s, entries[n].index_id)
    THEN Throw(s, "INDEX_NOT_FOUND")
    ELSE IF s.pm.pages[table.root_page_id].type # "DATA"
    THEN Throw(s, "INVALID_PAGE_TYPE")
    ELSE IndexesOpened(s, entries)

\* DMLExecutor::insert_into on a table of the catalog
InsertIntoTable(s, table, columns, entries, rows) ==
    TableInsertRows(TableOpened(s, table, columns, entries), table, columns, entries, rows)

table_insert_into(s, stmt) ==
    IF ~table_exists(s, stmt.table_name) THEN Throw(s, "TABLE_NOT_FOUND")
    ELSE InsertIntoTable(s, get_table(s, stmt.table_name),
                         get_columns(s, get_table(s, stmt.table_name).table_id),
                         get_indexes(s, get_table(s, stmt.table_name).table_id),
                         stmt.rows)

RECURSIVE IndexEntriesRemoved(_, _, _, _, _)
\* remove_row, the loop over index_contexts: build_index_key, tree.Remove,
\* catalog_.set_index_root
IndexEntriesRemoved(s, entries, columns, values, record_id) ==
    IF entries = <<>> \/ s.err # "OK" THEN s
    ELSE IF MissingColumn(Head(entries), columns) THEN Throw(s, "INVALID_ARGUMENT")
    ELSE IndexEntriesRemoved(
             RootRecorded(
                 TreeResult(s, Head(entries).index_id,
                            Remove(s.trees[Head(entries).index_id],
                                   encode_index_key(Head(entries), columns, values),
                                   record_id)),
                 Head(entries).index_id),
             Tail(entries), columns, values, record_id)

\* delete_all without WHERE, the scan callback: decode_row_values, heap.erase,
\* then the index entries
TableRemoveRow(s, columns, entries, row) ==
    IF Len(RecordDecode(row.payload)) # Len(columns) THEN Throw(s, "INVALID_ARGUMENT")
    ELSE IndexEntriesRemoved(
             [s EXCEPT !.pm.pages[row.loc.page_id].slots =
                           PageErase(@, row.loc.slot).page],
             entries, columns, RecordDecode(row.payload), make_record_id(row.loc))

RECURSIVE TableRemoveRows(_, _, _, _)
TableRemoveRows(s, columns, entries, rows) ==
    IF rows = <<>> \/ s.err # "OK" THEN s
    ELSE TableRemoveRows(TableRemoveRow(s, columns, entries, Head(rows)),
                         columns, entries, Tail(rows))

DeleteFromTable(s, table, columns, entries) ==
    IF \E n \in 1..Len(entries) : ~HasFile(s, entries[n].index_id)
    THEN Throw(s, "INDEX_NOT_FOUND")
    ELSE IF s.pm.pages[table.root_page_id].type # "DATA"
    THEN Throw(s, "INVALID_PAGE_TYPE")
    ELSE TableRemoveRows(IndexesOpened(s, entries), columns, entries,
                         HeapScan(s.pm, table.root_page_id))

\* DMLExecutor::delete_all without WHERE on a table of the catalog
table_delete_all(s, stmt) ==
    IF ~table_exists(s, stmt.table_name) THEN Throw(s, "TABLE_NOT_FOUND")
    ELSE DeleteFromTable(s, get_table(s, stmt.table_name),
                         get_columns(s, get_table(s, stmt.table_name).table_id),
                         get_indexes(s, get_table(s, stmt.table_name).table_id))

(***************************************************************************)
(* The database as a session starts on it, and what a statement leaves     *)
(* behind for the properties below                                         *)
(***************************************************************************)
\* the page file and the catalog after CatalogManager's constructor, on a new
\* database
FreshPm ==
    [pages |-> FreshFile, free_list |-> <<>>, next_table_id |-> 1, next_index_id |-> 1,
     pin_count |-> [p \in CatalogPages |-> 0], page_rows |-> CATALOG_PAGE_ROWS]

FreshCatalog == [tables_cache |-> <<>>, indexes_cache |-> <<>>]

\* a table as a scan shows it: its catalog entry, the pages of its heap, its
\* active columns and its rows in scan order
NoTable ==
    [exists |-> FALSE, table_id |-> 0, root_page_id |-> INVALID_PAGE_ID, chain |-> <<>>,
     columns |-> <<>>, rows |-> <<>>, locs |-> <<>>]

ScannedTable(s, table, scanned) ==
    [exists |-> TRUE, table_id |-> table.table_id, root_page_id |-> table.root_page_id,
     chain |-> ChainOf(s.pm, table.root_page_id),
     columns |-> get_columns(s, table.table_id),
     rows |-> [n \in 1..Len(scanned) |-> RecordDecode(scanned[n].payload)],
     locs |-> [n \in 1..Len(scanned) |-> scanned[n].loc]]

TableSeen(s, table) == ScannedTable(s, table, HeapScan(s.pm, table.root_page_id))

Snapshot(s, table_name) ==
    IF ~table_exists(s, table_name) THEN NoTable
    ELSE TableSeen(s, get_table(s, table_name))

\* no statement yet
NoDdl ==
    [kind |-> "none", status |-> "OK", stmt |-> [table_name |-> ""], before |-> NoTable,
     new_root |-> INVALID_PAGE_ID, pin_count |-> FreshPm.pin_count,
     free_list |-> <<>>, tables |-> <<>>, in_use |-> 1..Len(FreshFile)]

DdlStart ==
    /\ pm = FreshPm
    /\ catalog = FreshCatalog
    /\ trees = <<>>
    /\ ddl = NoDdl
    /\ nddl = 0

(***************************************************************************)
(* The tree driven through its API (as tests/index does): one tree, unique *)
(* or not, and a sequence of Insert and Remove calls.                      *)
(*   ref  - the pairs the callers put in and did not take out: per key the *)
(*          values of the Insert calls that returned, in call order, less  *)
(*          those a returning Remove call named                            *)
(*   last - the last call, the status it ended with, and whether the tree  *)
(*          held the call's key (Insert) or pair (Remove) when it was made *)
(*   removed - whether Remove was called on the tree                       *)
(***************************************************************************)
SeqWithout(seq, v) == SelectSeq(seq, LAMBDA x : x # v)

SeqHas(seq, v) == \E i \in 1..Len(seq) : seq[i] = v

NoCall == [op |-> "none", key |-> <<>>, value |-> 0, status |-> "OK", had |-> FALSE]

TreeInit ==
    /\ tree \in {NewTree(TRUE), NewTree(FALSE)}
    /\ ref = [k \in Keys |-> <<>>]
    /\ last = NoCall
    /\ nops = 0
    /\ removed = FALSE
    /\ heap = EmptyHeap
    /\ indexes = EmptyIndexes
    /\ done = NoStatement
    /\ nstmts = 0
    /\ DdlStart

\* Insert(k, v) is back with r = [tree, status]
InsertCalled(k, v, r) ==
    /\ tree' = r.tree
    /\ last' = [op |-> "Insert", key |-> k, value |-> v, status |-> r.status,
                had |-> k \in TreeKeys(tree)]
    /\ ref' = IF r.status = "OK" /\ ~SeqHas(ref[k], v)
              THEN [ref EXCEPT ![k] = Append(@, v)]
              ELSE ref

TreeInsert(k, v) ==
    /\ nops < MaxOps
    /\ InsertCalled(k, v, Insert(tree, k, v))
    /\ nops' = nops + 1
    /\ UNCHANGED removed
    /\ UNCHANGED sqlVars
    /\ UNCHANGED ddlVars

\* Remove(k, v) is back with r = [tree, status]
RemoveCalled(k, v, r) ==
    /\ tree' = r.tree
    /\ last' = [op |-> "Remove", key |-> k, value |-> v, status |-> r.status,
                had |-> <<k, v>> \in TreePairs(tree)]
    /\ ref' = IF r.status = "OK" THEN [ref EXCEPT ![k] = SeqWithout(@, v)] ELSE ref

TreeRemove(k, v) ==
    /\ nops < MaxOps
    /\ RemoveCalled(k, v, Remove(tree, k, v))
    /\ nops' = nops + 1
    /\ removed' = TRUE
    /\ UNCHANGED sqlVars
    /\ UNCHANGED ddlVars

TreeNext ==
    \/ \E k \in Keys, v \in Values : TreeInsert(k, v)
    \/ \E k \in Keys, v \in Values : TreeRemove(k, v)

TreeSpec == TreeInit /\ [][TreeNext]_vars

(***************************************************************************)
(* The table driven through SQL statements.                                *)
(*   done - the last statement: its kind, the status it ended with, and    *)
(*          the record id and values of the row it was working on last     *)
(***************************************************************************)
Init ==
    /\ heap = EmptyHeap
    /\ indexes = EmptyIndexes
    /\ done = NoStatement
    /\ nstmts = 0
    /\ tree = NewTree(TRUE)
    /\ ref = [k \in Keys |-> <<>>]
    /\ last = NoCall
    /\ nops = 0
    /\ removed = FALSE
    /\ DdlStart

Finish(kind, db) ==
    /\ heap' = db.heap
    /\ indexes' = db.indexes
    /\ done' = [kind |-> kind, status |-> db.err, rid |-> db.rid, values |-> db.values]
    /\ nstmts' = nstmts + 1
    /\ UNCHANGED treeVars
    /\ UNCHANGED ddlVars

SqlInsert(rows) ==
    /\ nstmts < MaxStmts
    /\ Finish("INSERT", insert_into(heap, indexes, rows))

SqlUpdate(assignment, where) ==
    /\ nstmts < MaxStmts
    /\ Finish("UPDATE", update_all(heap, indexes, assignment.column, assignment.value, where))

SqlDelete(where) ==
    /\ nstmts < MaxStmts
    /\ Finish("DELETE", delete_all(heap, indexes, where))

Next ==
    \/ \E rows \in InsertStatements : SqlInsert(rows)
    \/ \E assignment \in Assignments, where \in WhereClauses : SqlUpdate(assignment, where)
    \/ \E where \in WhereClauses : SqlDelete(where)

Spec == Init /\ [][Next]_vars

(***************************************************************************)
(* Properties of the table and its indexes                                 *)
(***************************************************************************)
\* C1: after every successful INSERT, UPDATE or DELETE statement, in any
\* sequence, every index of the table holds exactly the (index_key,
\* record_id) pairs that scanning the table heap yields.
C1_IndexesMatchHeap ==
    (done.kind \in {"INSERT", "UPDATE", "DELETE"} /\ done.status = "OK") =>
        \A i \in 1..Len(IndexCatalog) : TreePairs(indexes[i]) = HeapIndexPairs(heap, i)

\* C2: an INSERT that fails with DUPLICATE_KEY leaves neither a heap row nor
\* an index entry for the row it rejected.
C2_FailedInsertLeavesNothing ==
    (done.kind = "INSERT" /\ done.status = "DUPLICATE_KEY") =>
        /\ ~HeapRead(heap, decode_record_id(done.rid)).ok
        /\ \A i \in 1..Len(IndexCatalog) :
               \A pr \in TreePairs(indexes[i]) : pr[2] # done.rid

\* C3: an UPDATE that fails on a unique violation leaves no partial state: the
\* heap row it was changing still holds its pre-update values and every index
\* still holds the row's pre-update (key, record_id) entry.
C3_FailedUpdateLeavesRowAsItWas ==
    (done.kind = "UPDATE" /\ done.status = "DUPLICATE_KEY") =>
        /\ HeapRead(heap, decode_record_id(done.rid)).ok
        /\ decode_row_values(HeapRead(heap, decode_record_id(done.rid)).payload) = done.values
        /\ \A i \in 1..Len(IndexCatalog) :
               <<build_index_key(IndexCatalog[i], done.values), done.rid>>
                   \in TreePairs(indexes[i])

\* C4: on a table with a PRIMARY KEY, after any sequence of statements, failed
\* ones included, no two live rows share a primary-key value and no live row
\* has a NULL primary key.
C4_PrimaryKeyUniqueAndNotNull ==
    /\ \A r \in LiveRows(heap), q \in LiveRows(heap) :
           r.values[1] = q.values[1] => r = q
    /\ \A r \in LiveRows(heap) : ~r.values[1].is_null

(***************************************************************************)
(* Properties of the tree API                                              *)
(***************************************************************************)
\* C5: in a non-unique tree, after Insert(k, v1) ... Insert(k, vn) with
\* distinct values, ScanEqual(k) returns every vi, in insertion order.
C5_ScanEqualReturnsAllInserted ==
    (~tree.unique_ /\ ~removed /\ Intact(tree)) =>
        \A k \in Keys : ScanEqual(tree, k) = [status |-> "OK", values |-> ref[k]]

\* C6: in a unique tree, whatever the insertion order and the splits it
\* caused, Search(k) returns {true, v} for every pair (k, v) whose Insert
\* returned and {false} for every key never inserted.
C6_SearchFindsEveryInserted ==
    (tree.unique_ /\ ~removed) =>
        \A k \in Keys :
            Search(tree, k) = IF ref[k] # <<>>
                              THEN [status |-> "OK", found |-> TRUE, value |-> ref[k][1]]
                              ELSE [status |-> "OK", found |-> FALSE, value |-> 0]

\* C7: for any tree reached by Insert and Remove calls and any bounds,
\* ScanRange returns exactly the values of the entries whose key lies within
\* the bounds under the length-aware comparison, in key order.
C7_ScanRangeExact ==
    \A lower_key \in OptKeys, upper_key \in OptKeys :
        \A lower_inclusive \in BOOLEAN, upper_inclusive \in BOOLEAN :
            ScanRange(tree, lower_key, lower_inclusive, upper_key, upper_inclusive)
                = [status |-> "OK",
                   values |-> EntriesWithin(tree, Bounds(lower_key, lower_inclusive,
                                                         upper_key, upper_inclusive))]

\* C8: Remove(k, v) erases exactly the entry whose key is k and whose value
\* is v: after the call the tree holds the pairs it held before, less (k, v).
C8_RemoveErasesExactlyThePair ==
    [][last'.op = "Remove" =>
          TreePairs(tree') = TreePairs(tree) \ {<<last'.key, last'.value>>}]_vars

C8_Witness ==
    /\ last.op = "Remove" /\ last.had /\ last.status = "OK"
    /\ tree.pages[tree.root_page_id].type = "INTERNAL"
    /\ last.key \notin TreeKeys(tree)
    /\ TreePairs(tree) # {}

\* C9: whatever keys of at most MAX_KEY_LENGTH bytes are inserted, a node that
\* would not fit its page is split, so Insert never ends with RECORD_TOO_LARGE,
\* PAGE_FULL or INVALID_ARGUMENT.
C9_InsertNeverOutOfRoom ==
    last.op = "Insert" =>
        last.status \notin {"RECORD_TOO_LARGE", "PAGE_FULL", "INVALID_ARGUMENT"}

\* C10: Insert of a key the tree already holds fails with DUPLICATE_KEY in a
\* unique tree, whatever the tree's shape.
C10_DuplicateKeyRejected ==
    (last.op = "Insert" /\ tree.unique_ /\ last.had) => last.status = "DUPLICATE_KEY"

C10_Witness ==
    /\ last.op = "Insert" /\ tree.unique_ /\ last.had
    /\ last.status = "DUPLICATE_KEY"
    /\ tree.pages[tree.root_page_id].type = "INTERNAL"

\* while no store has failed, Search and ScanRange answer from the pairs put in
SearchCorrectWhileIntact == Intact(tree) => C6_SearchFindsEveryInserted

ScanRangeExactWhileIntact == Intact(tree) => C7_ScanRangeExact

(***************************************************************************)
(* The database driven through DDL statements, with INSERT and DELETE to   *)
(* put rows in the tables.                                                 *)
(*   ddl - the last statement: its kind and text, the status it ended      *)
(*         with, and from the state it started in: the statement's table   *)
(*         as a scan showed it, the page id new_page was about to hand     *)
(*         out, the pin counts, the free list, the cached tables and the   *)
(*         pages that were in use                                          *)
(***************************************************************************)
\* number of statements explored on one database
MaxDdl == 4

TableNames == {"a", "b"}

\* a column definition of the AST; DEFAULT literals: 7, or NULL
ColumnAst(name, primary_key, not_null, has_default, default_value) ==
    [name |-> name, primary_key |-> primary_key, not_null |-> not_null, unique |-> FALSE,
     has_default |-> has_default, default_value |-> default_value]

\* c INTEGER UNIQUE
Unique(name) == [ColumnAst(name, FALSE, FALSE, FALSE, Null) EXCEPT !.unique = TRUE]

Plain(name) == ColumnAst(name, FALSE, FALSE, FALSE, Null)

PrimaryKey(name) == ColumnAst(name, TRUE, FALSE, FALSE, Null)

\* CREATE TABLE t (x INTEGER PRIMARY KEY [, y INTEGER]),
\* CREATE TABLE t (x INTEGER, y INTEGER) and CREATE TABLE a (x INTEGER, X INTEGER)
CreateTableStatements ==
    {[table_name |-> t, columns |-> c] :
        t \in TableNames,
        c \in {<<PrimaryKey("x")>>, <<PrimaryKey("x"), Plain("y")>>, <<Plain("x"), Plain("y")>>}}
        \cup {[table_name |-> "a", columns |-> <<Plain("x"), Plain("X")>>]}

\* DROP TABLE [IF EXISTS] t
DropTableStatements == {[table_name |-> t, if_exists |-> e] : t \in TableNames, e \in BOOLEAN}

\* CREATE [UNIQUE] INDEX i ON t (c), and an index that takes the name
\* CREATE TABLE b would give the index of b's primary key
CreateIndexStatements ==
    {[index_name |-> "i", table_name |-> t, column_names |-> <<c>>, unique |-> u,
      if_not_exists |-> FALSE] : t \in TableNames, c \in {"x", "y"}, u \in BOOLEAN}
        \cup {[index_name |-> "b_pk", table_name |-> "a", column_names |-> <<"x">>,
               unique |-> FALSE, if_not_exists |-> FALSE]}

\* DROP INDEX name
DropIndexStatements ==
    {[index_name |-> n, table_name |-> "", if_exists |-> FALSE] : n \in {"i", "a_pk"}}

\* ALTER TABLE t ADD COLUMN c INTEGER [NOT NULL] [DEFAULT 7 | DEFAULT NULL],
\* c one of y, z and Y
AddColumnStatements ==
    {[table_name |-> t, add_column |-> c] :
        t \in TableNames,
        c \in {ColumnAst(n, FALSE, FALSE, FALSE, Null) : n \in {"y", "z", "Y"}}
              \cup {ColumnAst(n, FALSE, k, TRUE, Int32(7)) : n \in {"y", "z"}, k \in BOOLEAN}
              \cup {ColumnAst("z", FALSE, TRUE, TRUE, Null),
                    ColumnAst("z", FALSE, TRUE, FALSE, Null)}}

\* ALTER TABLE t DROP COLUMN c
DropColumnStatements ==
    {[table_name |-> t, drop_column_name |-> c] : t \in TableNames, c \in {"x", "y", "z"}}

\* the k-th row of an INSERT into a table of n columns: (k, 1, ..., 1)
RowFor(n, k) == [c \in 1..n |-> IF c = 1 THEN Int32(k) ELSE Int32(1)]

\* the number of rows of the INSERT statements
MaxRows == 3

\* the statement's table has n active columns
ColumnCount(s, table_name) ==
    IF ~table_exists(s, table_name) THEN 1
    ELSE Len(get_columns(s, get_table(s, table_name).table_id))

\* the pages of the file that are not free
InUse(p) == {page_id \in 1..Len(p.pages) : p.pages[page_id].type # "FREE"}

Now == [pm |-> pm, catalog |-> catalog, trees |-> trees, err |-> "OK", evict |-> FALSE]

\* the statement is back with s
DdlFinish(kind, stmt, s) ==
    /\ nddl < MaxDdl
    /\ pm' = s.pm
    /\ catalog' = s.catalog
    /\ trees' = s.trees
    /\ ddl' = [kind |-> kind, status |-> s.err, stmt |-> stmt,
               before |-> Snapshot(Now, stmt.table_name),
               new_root |-> NewPageId(pm), pin_count |-> pm.pin_count,
               free_list |-> pm.free_list, tables |-> catalog.tables_cache,
               in_use |-> InUse(pm)]
    /\ nddl' = nddl + 1
    /\ UNCHANGED treeVars
    /\ UNCHANGED sqlVars

CreateTable(stmt) == DdlFinish("CREATE TABLE", stmt, create_from_ast(Now, stmt))

DropTable(stmt) == DdlFinish("DROP TABLE", stmt, drop_from_ast(Now, stmt))

CreateIndexOn(stmt) ==
    DdlFinish("CREATE INDEX", stmt, create_index_from_ast(Now, stmt, FALSE))

DropIndexNamed(stmt) == DdlFinish("DROP INDEX", stmt, drop_index_from_ast(Now, stmt))

AddColumn(stmt, evict) ==
    DdlFinish("ADD COLUMN", stmt, alter_add_column([Now EXCEPT !.evict = evict], stmt))

DropColumn(stmt) == DdlFinish("DROP COLUMN", stmt, alter_drop_column(Now, stmt))

InsertRowsInto(table_name, n) ==
    DdlFinish("INSERT", [table_name |-> table_name, rows |-> n],
              table_insert_into(Now,
                                [table_name |-> table_name,
                                 rows |-> [k \in 1..n |->
                                              RowFor(ColumnCount(Now, table_name), k)]]))

DeleteFrom(table_name) ==
    DdlFinish("DELETE", [table_name |-> table_name],
              table_delete_all(Now, [table_name |-> table_name]))

DdlNext ==
    \/ \E stmt \in CreateTableStatements : CreateTable(stmt)
    \/ \E stmt \in DropTableStatements : DropTable(stmt)
    \/ \E stmt \in CreateIndexStatements : CreateIndexOn(stmt)
    \/ \E stmt \in DropIndexStatements : DropIndexNamed(stmt)
    \/ \E stmt \in AddColumnStatements, evict \in BOOLEAN : AddColumn(stmt, evict)
    \/ \E stmt \in DropColumnStatements : DropColumn(stmt)
    \/ \E t \in TableNames, n \in 1..MaxRows : InsertRowsInto(t, n)
    \/ \E t \in TableNames : DeleteFrom(t)

DdlInit ==
    /\ DdlStart
    /\ tree = NewTree(TRUE)
    /\ ref = [k \in Keys |-> <<>>]
    /\ last = NoCall
    /\ nops = 0
    /\ removed = FALSE
    /\ heap = EmptyHeap
    /\ indexes = EmptyIndexes
    /\ done = NoStatement
    /\ nstmts = 0

DdlSpec == DdlInit /\ [][DdlNext]_vars

(***************************************************************************)
(* Properties of the DDL statements                                        *)
(***************************************************************************)
\* the last statement was an ALTER TABLE ADD COLUMN or DROP COLUMN that
\* returned
AlterDone == ddl.kind \in {"ADD COLUMN", "DROP COLUMN"} /\ ddl.status = "OK"

\* the table of the last statement as a scan shows it now
TableNow == Snapshot(Now, ddl.stmt.table_name)

\* a field of a row after ALTER TABLE: the value the row had in the column
\* of that id (at pos before), else the declared default of the added column
FieldKept(old_row, field, pos) ==
    IF pos # 0 THEN field = old_row[pos]
    ELSE /\ ddl.kind = "ADD COLUMN"
         /\ field = (IF ddl.stmt.add_column.has_default
                     THEN ddl.stmt.add_column.default_value ELSE Null)

RowsKept(before, after) ==
    /\ Len(after.rows) = Len(before.rows)
    /\ \A n \in 1..Len(after.rows) :
          /\ Len(after.rows[n]) = Len(after.columns)
          /\ \A c \in 1..Len(after.columns) :
                FieldKept(before.rows[n], after.rows[n][c],
                          ColumnWithId(before.columns, after.columns[c].column_id))

\* C11: after a successful ALTER TABLE ADD COLUMN or DROP COLUMN, a scan of
\* the table returns as many rows as before, in the same order, each with the
\* value it had in every column that exists before and after, and with the
\* declared default (NULL when none was declared) in the added column.
C11_AlterKeepsRows == AlterDone => RowsKept(ddl.before, TableNow)

\* ADD COLUMN ... DEFAULT 7 on a table whose rows fill more than one page
C11_Witness ==
    /\ AlterDone
    /\ ddl.kind = "ADD COLUMN"
    /\ ddl.stmt.add_column.has_default
    /\ Len(ddl.before.rows) >= 2
    /\ Len(TableNow.chain) >= 2
    /\ RowsKept(ddl.before, TableNow)
    /\ \E c \in 1..Len(TableNow.columns) :
          /\ ColumnWithId(ddl.before.columns, TableNow.columns[c].column_id) = 0
          /\ \A n \in 1..Len(TableNow.rows) : TableNow.rows[n][c] = Int32(7)

\* the (key, record_id) pair of every row of a table, for one of its indexes
TablePairs(t, idx) ==
    {<<encode_index_key(idx, t.columns, t.rows[n]), make_record_id(t.locs[n])>> :
        n \in 1..Len(t.rows)}

\* the index file holds the pairs of the table's rows and no other
IndexHolds(t, idx) ==
    /\ HasFile(Now, idx.index_id)
    /\ ~MissingColumn(idx, t.columns)
    /\ TreePairs(trees[idx.index_id]) = TablePairs(t, idx)

IndexesHold(t, entries) == \A n \in 1..Len(entries) : IndexHolds(t, entries[n])

\* C12: after a successful ALTER TABLE ADD COLUMN or DROP COLUMN, every index
\* the catalog still lists for the table holds exactly one (key, record_id)
\* pair per live row of the new heap, the record_id being the row's location
\* in the new chain.
C12_AlterRebuildsIndexes ==
    AlterDone => IndexesHold(TableNow, get_indexes(Now, TableNow.table_id))

\* no two rows of the table have the same key in the index
DistinctKeys(t, idx) ==
    \/ MissingColumn(idx, t.columns)
    \/ \A m, n \in 1..Len(t.rows) :
          encode_index_key(idx, t.columns, t.rows[m])
              = encode_index_key(idx, t.columns, t.rows[n]) => m = n

\* the rebuilt indexes whose keys differ from row to row do hold one pair
\* per row
RebuiltIndexesHoldDistinctKeys ==
    AlterDone =>
        \A n \in 1..Len(get_indexes(Now, TableNow.table_id)) :
            DistinctKeys(TableNow, get_indexes(Now, TableNow.table_id)[n])
                => IndexHolds(TableNow, get_indexes(Now, TableNow.table_id)[n])

\* the statements of DDLExecutor
DdlKinds ==
    {"CREATE TABLE", "DROP TABLE", "CREATE INDEX", "DROP INDEX", "ADD COLUMN", "DROP COLUMN"}

\* every column of every index entry is an active column of the entry's table
ColumnsActive(s, entries) ==
    \A n \in 1..Len(entries) :
        ~MissingColumn(entries[n], get_columns(s, entries[n].table_id))

\* C13: after any successful DDL statement, every column_id of every index of
\* the catalog (the indexes page and the cached entries) is an active column
\* of the index's table; DROP COLUMN leaves no index on the dropped column.
C13_IndexColumnsActive ==
    (ddl.kind \in DdlKinds /\ ddl.status = "OK") =>
        /\ ColumnsActive(Now, read_all_indexes(Now))
        /\ ColumnsActive(Now, catalog.indexes_cache)

\* every column a cached table was ever given has its row in the columns page
ColumnRowsComplete(s) ==
    \A n \in 1..Len(s.catalog.tables_cache) :
        Len(read_table_columns(s, s.catalog.tables_cache[n].table_id))
            = s.catalog.tables_cache[n].next_column_id - 1

\* while no failed statement has cut the columns page short, the indexes of
\* the catalog name active columns only
IndexColumnsActiveWhileComplete ==
    (ddl.kind \in DdlKinds /\ ddl.status = "OK" /\ ColumnRowsComplete(Now)) =>
        /\ ColumnsActive(Now, read_all_indexes(Now))
        /\ ColumnsActive(Now, catalog.indexes_cache)

\* the statuses ALTER TABLE ends with when it throws before
\* catalog_.set_table_root: from its own checks, from the migration of the
\* heap, from CatalogManager::add_column and drop_column
BeforeSwap ==
    {"TABLE_NOT_FOUND", "INVALID_CONSTRAINT", "DUPLICATE_COLUMN", "COLUMN_NOT_FOUND",
     "PAGE_FULL", "INVALID_PAGE_TYPE", "INVALID_RECORD_FORMAT"}

AlterFailedBeforeSwap ==
    /\ ddl.kind \in {"ADD COLUMN", "DROP COLUMN"}
    /\ ddl.status \in BeforeSwap
    /\ ddl.before.exists

\* C14: an ALTER TABLE ADD COLUMN or DROP COLUMN that fails before the root
\* page is swapped leaves the catalog entry on the old heap root, and a scan
\* of the table returns the rows and the columns it had before the statement.
C14_FailedAlterLeavesTable ==
    AlterFailedBeforeSwap =>
        /\ TableNow.root_page_id = ddl.before.root_page_id
        /\ TableNow.columns = ddl.before.columns
        /\ TableNow.rows = ddl.before.rows

\* every failure before the swap other than a full columns page does leave
\* the table as it was
FailedAlterLeavesTableUnlessPageFull ==
    (AlterFailedBeforeSwap /\ ddl.status # "PAGE_FULL") =>
        /\ TableNow.root_page_id = ddl.before.root_page_id
        /\ TableNow.columns = ddl.before.columns
        /\ TableNow.rows = ddl.before.rows

\* the ids of the tables that were cached when the last statement started
TablesBefore == {ddl.tables[n].table_id : n \in 1..Len(ddl.tables)}

\* neither the tables page, the cache nor the columns page has a row of a
\* table that was not there when the last statement started
NoNewTable ==
    /\ catalog.tables_cache = ddl.tables
    /\ \A n \in 1..Len(SlotsOf(Now, TABLES_ROOT)) :
          SlotsOf(Now, TABLES_ROOT)[n].table_id \in TablesBefore
    /\ \A n \in 1..Len(SlotsOf(Now, COLUMNS_ROOT)) :
          SlotsOf(Now, COLUMNS_ROOT)[n].table_id \in TablesBefore

\* the page is on the free list
Freed(page_id) == \E n \in 1..Len(pm.free_list) : pm.free_list[n] = page_id

\* C15: a CREATE TABLE that fails after its heap root page was allocated (every
\* CREATE TABLE explored here passes the checks made before new_page) leaves
\* no catalog entry for the new table or its columns, and the root page is
\* back on the free list.
C15_FailedCreateRollsBack ==
    (ddl.kind = "CREATE TABLE" /\ ddl.status # "OK") =>
        /\ NoNewTable
        /\ Freed(ddl.new_root)

\* the TableDef create_from_ast hands to CatalogManager::create_table
TableDefOf(stmt) ==
    [name |-> stmt.table_name,
     columns |-> [c \in 1..Len(stmt.columns) |-> map_column(stmt.columns[c])]]

\* CatalogManager::create_table, called for stmt in this state, throws for
\* another reason than a table of that name
CreateTableFails(stmt) ==
    create_table([Now EXCEPT !.pm = new_page(@)], TableDefOf(stmt), NewPageId(pm)).err
        \notin {"OK", "TABLE_EXISTS"}

\* C16: when CatalogManager::create_table fails, at whatever point, the table
\* cache is rolled back: table_exists (and get_table) do not report the table
\* afterwards.
C16_CreateTableAtomic ==
    [][\A stmt \in CreateTableStatements :
          (ddl'.kind = "CREATE TABLE" /\ ddl'.stmt = stmt /\ CreateTableFails(stmt))
              => ~table_exists([catalog |-> catalog'], stmt.table_name)]_vars

\* the entries among a table's indexes that are primary, unique and on
\* exactly the column of that id
PrimaryIndexes(entries, column_id) ==
    {n \in 1..Len(entries) :
        /\ entries[n].is_primary
        /\ entries[n].is_unique
        /\ entries[n].column_ids = <<column_id>>}

\* C17: after every successful CREATE TABLE that declares a PRIMARY KEY
\* column, whatever indexes the catalog already held, the catalog holds
\* exactly one primary, unique index on the new table, on exactly the
\* primary-key column.
C17_PrimaryKeyIndexCreated ==
    (ddl.kind = "CREATE TABLE" /\ ddl.status = "OK" /\ PrimaryKeyOf(ddl.stmt.columns) # 0) =>
        Cardinality(PrimaryIndexes(get_indexes(Now, TableNow.table_id),
                                   PrimaryKeyOf(ddl.stmt.columns))) = 1

\* it does when no index has the name table_pk yet
PrimaryKeyIndexCreatedUnlessNameTaken ==
    (/\ ddl.kind = "CREATE TABLE"
     /\ ddl.status = "OK"
     /\ PrimaryKeyOf(ddl.stmt.columns) # 0
     /\ \A n \in 1..Len(catalog.indexes_cache) :
           catalog.indexes_cache[n].name = PkIndexName(ddl.stmt.table_name)
               => catalog.indexes_cache[n].table_id = TableNow.table_id) =>
        Cardinality(PrimaryIndexes(get_indexes(Now, TableNow.table_id),
                                   PrimaryKeyOf(ddl.stmt.columns))) = 1

\* no row of the sequence is about the table
NoRowOf(rows, table_id) == \A n \in 1..Len(rows) : rows[n].table_id # table_id

NoRowsOf(table_id) ==
    /\ NoRowOf(SlotsOf(Now, TABLES_ROOT), table_id)
    /\ NoRowOf(catalog.tables_cache, table_id)
    /\ NoRowOf(SlotsOf(Now, COLUMNS_ROOT), table_id)
    /\ NoRowOf(SlotsOf(Now, INDEXES_ROOT), table_id)
    /\ NoRowOf(catalog.indexes_cache, table_id)

\* C18: after a successful DROP TABLE the catalog has no table row, no column
\* row and no index row with the dropped table's id, on its pages or in its
\* caches.
C18_DropTableLeavesNoRows ==
    (ddl.kind = "DROP TABLE" /\ ddl.status = "OK" /\ ddl.before.exists) =>
        NoRowsOf(ddl.before.table_id)

\* DROP TABLE of a table with a primary-key index and a dropped column, next
\* to a table that stays
C18_Witness ==
    /\ ddl.kind = "DROP TABLE"
    /\ ddl.status = "OK"
    /\ ddl.before.exists
    /\ Len(ddl.before.columns) = 1
    /\ \E n \in 1..Len(ddl.tables) :
          /\ ddl.tables[n].table_id = ddl.before.table_id
          /\ ddl.tables[n].next_column_id = 3
          /\ ddl.tables[n].schema_version = 2
    /\ NoRowsOf(ddl.before.table_id)
    /\ Len(ddl.tables) = 2
    /\ Len(catalog.tables_cache) = 1
    /\ Len(SlotsOf(Now, COLUMNS_ROOT)) = 1
    /\ Len(catalog.indexes_cache) = 1
    /\ pm.next_index_id = 3
    /\ Cardinality({n \in 1..Len(trees) : HasFile(Now, n)}) = 1

\* C19: after DROP TABLE every page of the table's heap chain, the root page
\* and every page linked after it, is on the free list.
C19_DropTableFreesChain ==
    (ddl.kind = "DROP TABLE" /\ ddl.status = "OK" /\ ddl.before.exists) =>
        \A n \in 1..Len(ddl.before.chain) : Freed(ddl.before.chain[n])

\* the root page is
DropTableFreesRoot ==
    (ddl.kind = "DROP TABLE" /\ ddl.status = "OK" /\ ddl.before.exists) =>
        Freed(ddl.before.root_page_id)

\* C20: every fetch is paired with exactly one unpin on every exit path:
\* after any statement, whether it returned or threw, each frame's pin_count
\* (fetches less unpins) is what it was before the statement.
C20_PinsBalanced == nddl > 0 => pm.pin_count = ddl.pin_count

\* the statements that return or throw anything but PAGE_FULL do leave the
\* pin counts as they were
PinsBalancedUnlessPageFull ==
    (nddl > 0 /\ ddl.status # "PAGE_FULL") => pm.pin_count = ddl.pin_count

\* the schema_version the table of the last statement had when the statement
\* started (0 when the table was not cached)
VersionBefore(table_id) ==
    IF \E n \in 1..Len(ddl.tables) : ddl.tables[n].table_id = table_id
    THEN ddl.tables[CHOOSE n \in 1..Len(ddl.tables) :
                        ddl.tables[n].table_id = table_id].schema_version
    ELSE 0

MaxCalls == 5

\* rows a catalog page has room for in the calls below
CatalogRows == 6

\* the names of the columns added and dropped
ColumnNames == {"x", "y", "z"}

\* position of add_column: none, or 0 .. MAX_COLUMNS_PER_TABLE
Positions == {NoPosition} \cup 0..MAX_COLUMNS_PER_TABLE

\* the tables created: a (x PRIMARY KEY, y), a (x, y), a (x)
TableDefs ==
    {[name |-> "a", columns |-> c] :
        c \in {<<map_column(PrimaryKey("x")), map_column(Plain("y"))>>,
               <<map_column(Plain("x")), map_column(Plain("y"))>>,
               <<map_column(Plain("x"))>>}}

\* an active column as a listing of the table shows it
Listed(entry) ==
    [column_id |-> entry.column_id, name |-> entry.name,
     ordinal_position |-> entry.ordinal_position, primary_key |-> entry.primary_key,
     not_null |-> entry.not_null, has_default |-> entry.has_default,
     default_value |-> entry.default_value]

\* get_columns of the table of that name, <<>> when there is none
ActiveColumns(s, table_name) ==
    IF ~table_exists(s, table_name) THEN <<>>
    ELSE [n \in 1..Len(get_columns(s, get_table(s, table_name).table_id)) |->
             Listed(get_columns(s, get_table(s, table_name).table_id)[n])]

NoCatalogCall == [kind |-> "none", status |-> "OK", stmt |-> [table_name |-> ""], before |-> <<>>]

\* the call is back with s
CatalogFinish(kind, stmt, s) ==
    /\ nddl < MaxCalls
    /\ pm' = s.pm
    /\ catalog' = s.catalog
    /\ ddl' = [kind |-> kind, status |-> s.err, stmt |-> stmt,
               before |-> ActiveColumns(Now, stmt.table_name),
               prev |-> [kind |-> ddl.kind, status |-> ddl.status, stmt |-> ddl.stmt,
                         before |-> ddl.before]]
    /\ nddl' = nddl + 1
    /\ UNCHANGED trees
    /\ UNCHANGED treeVars
    /\ UNCHANGED sqlVars

\* catalog.create_table(def, root_page_id) with a page from new_page
CatalogCreateTable(def) ==
    CatalogFinish("create_table", [table_name |-> def.name],
                  create_table([Now EXCEPT !.pm = new_page(@)], def, NewPageId(pm)))

\* catalog.add_column(table_id, column, position) with the id of a table
\* that exists
CatalogAddColumn(table_name, column, position) ==
    /\ table_exists(Now, table_name)
    /\ CatalogFinish("add_column",
                     [table_name |-> table_name, name |-> column.name,
                      position |-> position],
                     add_column(Now, get_table(Now, table_name).table_id, column, position))

\* catalog.drop_column(table_id, column_name)
CatalogDropColumn(table_name, column_name) ==
    /\ table_exists(Now, table_name)
    /\ CatalogFinish("drop_column", [table_name |-> table_name, name |-> column_name],
                     drop_column(Now, get_table(Now, table_name).table_id, column_name))

CatalogNext ==
    \/ \E def \in TableDefs : CatalogCreateTable(def)
    \/ \E n \in ColumnNames, p \in Positions : CatalogAddColumn("a", map_column(Plain(n)), p)
    \/ \E n \in ColumnNames : CatalogDropColumn("a", n)

CatalogInit ==
    /\ pm = [FreshPm EXCEPT !.page_rows = CatalogRows]
    /\ catalog = FreshCatalog
    /\ trees = <<>>
    /\ ddl = [kind |-> "none", status |-> "OK", stmt |-> [table_name |-> ""],
              before |-> <<>>, prev |-> NoCatalogCall]
    /\ nddl = 0
    /\ tree = NewTree(TRUE)
    /\ ref = [k \in Keys |-> <<>>]
    /\ last = NoCall
    /\ nops = 0
    /\ removed = FALSE
    /\ heap = EmptyHeap
    /\ indexes = EmptyIndexes
    /\ done = NoStatement
    /\ nstmts = 0

CatalogSpec == CatalogInit /\ [][CatalogNext]_vars

\* C22: after add_column(c) followed by drop_column of the same name, the
\* table's active columns (the same columns, in the same order, with the same
\* ordinal positions) are those before add_column, whatever the position c
\* was inserted at.
C22_AddThenDropRestores ==
    (/\ ddl.kind = "drop_column"
     /\ ddl.status = "OK"
     /\ ddl.prev.kind = "add_column"
     /\ ddl.prev.status = "OK"
     /\ ddl.prev.stmt.name = ddl.stmt.name) =>
        ActiveColumns(Now, ddl.stmt.table_name) = ddl.prev.before

\* the rows of the table's dropped columns
DroppedColumns(s, table_name) ==
    SelectSeq(read_table_columns(s, get_table(s, table_name).table_id),
              LAMBDA e : e.is_dropped)

\* a column added in front of two others and dropped again, on a table that
\* had lost a column before
C22_Witness ==
    /\ ddl.kind = "drop_column"
    /\ ddl.status = "OK"
    /\ ddl.prev.kind = "add_column"
    /\ ddl.prev.status = "OK"
    /\ ddl.prev.stmt.name = ddl.stmt.name
    /\ ddl.prev.stmt.position = 0
    /\ Len(ddl.prev.before) = 2
    /\ Len(ddl.before) = 3
    /\ ddl.before[1].name = ddl.stmt.name
    /\ ActiveColumns(Now, ddl.stmt.table_name) = ddl.prev.before
    /\ Len(DroppedColumns(Now, ddl.stmt.table_name)) = 2

\* the ordinal positions of a column list are 0, 1, ... in list order
Dense(columns) == \A n \in 1..Len(columns) : columns[n].ordinal_position = n - 1

\* C23: after any sequence of add_column (at any position) and drop_column
\* calls on a table, its active columns have the ordinal positions 0..n-1,
\* with no gap and no duplicate.
C23_OrdinalsDense == Dense(ActiveColumns(Now, "a"))

\* a column added between two others, on a table that had lost a column
\* before
C23_Witness ==
    /\ ddl.kind = "add_column"
    /\ ddl.status = "OK"
    /\ ddl.stmt.position = 1
    /\ Len(ddl.before) = 2
    /\ Len(ActiveColumns(Now, "a")) = 3
    /\ ActiveColumns(Now, "a")[2].name = ddl.stmt.name
    /\ ActiveColumns(Now, "a")[1].name = ddl.before[1].name
    /\ ActiveColumns(Now, "a")[3].name = ddl.before[2].name
    /\ Dense(ActiveColumns(Now, "a"))
    /\ Len(DroppedColumns(Now, "a")) >= 1

\* the same of every table after every DDL statement, the statements that a
\* full columns page stops included
OrdinalsDenseAfterDdl ==
    \A n \in 1..Len(catalog.tables_cache) :
        Dense(get_columns(Now, catalog.tables_cache[n].table_id))

\* no two of the columns have names that are equal ignoring letter case
DistinctNames(columns) ==
    \A i, j \in 1..Len(columns) :
        normalize_identifier(columns[i].name) = normalize_identifier(columns[j].name)
            => i = j

\* C24: after every CREATE TABLE and ALTER TABLE ADD COLUMN / DROP COLUMN
\* statement, no table has two active columns whose names are equal ignoring
\* letter case.
C24_ColumnNamesDistinct ==
    \A n \in 1..Len(catalog.tables_cache) :
        DistinctNames(get_columns(Now, catalog.tables_cache[n].table_id))

\* the same of the tables as CREATE TABLE leaves them
CreatedNamesDistinct ==
    (ddl.kind = "CREATE TABLE" /\ ddl.status = "OK") =>
        DistinctNames(get_columns(Now, get_table(Now, ddl.stmt.table_name).table_id))

\* every index entry of a list that has a file names the root of its tree
RootsMatch(s, entries) ==
    \A i \in 1..Len(entries) :
        HasFile(s, entries[i].index_id) =>
            entries[i].root_page_id = s.trees[entries[i].index_id].root_page_id

\* C30: after every statement, the root_page_id the catalog records for an
\* index, in its cache and in its indexes page, is the root_page_id of the
\* index's tree, also after an insert that split the root.
C30_IndexRootRecorded ==
    /\ RootsMatch(Now, catalog.indexes_cache)
    /\ RootsMatch(Now, read_all_indexes(Now))

\* the same of the indexes of the statement's table after the statements
\* that return without an error
RootRecordedAfterSuccess ==
    (ddl.status = "OK" /\ table_exists(Now, ddl.stmt.table_name)) =>
        RootsMatch(Now, get_indexes(Now, get_table(Now, ddl.stmt.table_name).table_id))

(***************************************************************************)
(* DMLExecutor::select.  A SELECT statement is [distinct, columns, from,   *)
(* joins, where, order_by, limit]: columns is a list of column references, *)
(* <<>> for *; from and the table of a join are [table_name, alias]; a     *)
(* join is [table, condition]; an ORDER BY term is [column, ascending];    *)
(* limit is [has, n].  Every table is t.  The result is [status, rows],    *)
(* rows the lists of texts sent back.                                      *)
(***************************************************************************)
TableRef(table_name, alias) == [table_name |-> table_name, alias |-> alias]

NoLimit == [has |-> FALSE, n |-> 0]

Limit(n) == [has |-> TRUE, n |-> n]

Asc(column) == [column |-> ColumnRef("", column), ascending |-> TRUE]

Desc(column) == [column |-> ColumnRef("", column), ascending |-> FALSE]

\* select: the tables of FROM and JOIN
TablesOf(stmt) == <<stmt.from>> \o [j \in 1..Len(stmt.joins) |-> stmt.joins[j].table]

\* the names that qualify the columns of a table: its name, and its alias
Qualifiers(table) ==
    IF table.alias = "" THEN {table.table_name} ELSE {table.table_name, table.alias}

\* the bindings of the columns of the first table_count tables, one row after
\* the other
PrefixBindings(tables, table_count) ==
    [n \in 1..(table_count * Len(Columns)) |->
        BindingEntry(Columns[((n - 1) % Len(Columns)) + 1].name, n,
                     Qualifiers(tables[((n - 1) \div Len(Columns)) + 1]))]

\* select: binding_entries of full_evaluator
FullBindings(stmt) == PrefixBindings(TablesOf(stmt), Len(TablesOf(stmt)))

\* select: order_terms, each [value_index, ascending, column_id]
OrderTerms(stmt) ==
    [n \in 1..Len(stmt.order_by) |->
        [value_index |-> lookup_column(FullBindings(stmt), stmt.order_by[n].column),
         ascending |-> stmt.order_by[n].ascending,
         column_id |-> ((lookup_column(FullBindings(stmt), stmt.order_by[n].column) - 1)
                           % Len(Columns)) + 1]]

all_order_descending(order_terms) == \A n \in 1..Len(order_terms) : ~order_terms[n].ascending

mixed_order_direction(order_terms) ==
    \E n \in 2..Len(order_terms) : order_terms[n].ascending # order_terms[n - 1].ascending

\* select: order_index_context, the first index whose leading columns are the
\* ORDER BY columns (every index has one column), 0 when there is none
OrderIndex(order_terms) ==
    IF order_terms = <<>> \/ mixed_order_direction(order_terms) THEN 0
    ELSE FirstIn({i \in 1..Len(IndexCatalog) :
                     /\ Len(order_terms) <= 1
                     /\ IndexCatalog[i].column = order_terms[1].column_id}, 0)

Reversed(seq) == [n \in 1..Len(seq) |-> seq[Len(seq) + 1 - n]]

\* candidate ids in final order are reversed when every term is descending
FinalOrder(r, order_terms) ==
    IF all_order_descending(order_terms) THEN [r EXCEPT !.values = Reversed(@)] ELSE r

\* select, the scan of the ORDER BY index: the bounds of the predicate on its
\* column, when the extraction has one
OrderScanBounds(p) ==
    IF p.equality.has
    THEN Bounds(BoundKey(p.equality), TRUE, BoundKey(p.equality), TRUE)
    ELSE Bounds(BoundKey(p.lower), IF p.lower.has THEN p.lower_inclusive ELSE TRUE,
                BoundKey(p.upper), IF p.upper.has THEN p.upper_inclusive ELSE TRUE)

OrderScanOf(info, column) ==
    IF info.has /\ info.predicates[column].present
    THEN OrderScanBounds(info.predicates[column].pred)
    ELSE Bounds(NoKey, TRUE, NoKey, TRUE)

\* select: tree().ScanRange on the ORDER BY index
OrderScan(ix, i, b) ==
    ScanRange(ix[i], b.lower_key, b.lower_inclusive, b.upper_key, b.upper_inclusive)

\* select, single table: the candidate ids, [populated, sorted, status,
\* values], given the scan of choose_index_scan and the ORDER BY index
CandidateIds(ix, info, scan, order_terms, order_index) ==
    IF scan.context_index # 0
    THEN [populated |-> TRUE,
          sorted |-> order_index # 0 /\ scan.context_index = order_index,
          r |-> IF order_index # 0 /\ scan.context_index = order_index
                THEN FinalOrder(run_index_scan(ix, scan), order_terms)
                ELSE run_index_scan(ix, scan)]
    ELSE IF order_index # 0
    THEN [populated |-> TRUE, sorted |-> TRUE,
          r |-> FinalOrder(OrderScan(ix, order_index,
                                     OrderScanOf(info, IndexCatalog[order_index].column)),
                           order_terms)]
    ELSE [populated |-> FALSE, sorted |-> FALSE, r |-> [status |-> "OK", values |-> <<>>]]

\* select, process_row on a row that was read
ProcessRow(bindings, where, rd) ==
    IF ~rd.ok THEN <<>>
    ELSE IF where.has /\ ~is_true(evaluate_predicate(bindings, where.expr,
                                                      Typed(decode_row_values(rd.payload))))
    THEN <<>>
    ELSE <<Typed(decode_row_values(rd.payload))>>

RECURSIVE ProcessRows(_, _, _, _)
\* select: process_row over the candidates, or over the heap scan
ProcessRows(h, bindings, where, locs) ==
    IF locs = <<>> THEN <<>>
    ELSE ProcessRow(bindings, where, HeapRead(h, Head(locs)))
             \o ProcessRows(h, bindings, where, Tail(locs))

\* select, single table, once the candidate ids are known: [status, sorted,
\* rows]
Filtered(h, bindings, where, c) ==
    IF c.r.status # "OK" THEN [status |-> c.r.status, sorted |-> FALSE, rows |-> <<>>]
    ELSE [status |-> "OK", sorted |-> c.sorted,
          rows |-> ProcessRows(h, bindings, where,
                               IF c.populated THEN Decoded(c.r).locs
                               ELSE HeapLocations(h, 1))]

\* select, tables.size() = 1: filtered_rows and rows_already_sorted
SingleTableRows(h, ix, stmt, info, order_terms) ==
    IF info.has /\ info.contradiction THEN [status |-> "OK", sorted |-> FALSE, rows |-> <<>>]
    ELSE Filtered(h, FullBindings(stmt), stmt.where,
                  CandidateIds(ix, info, choose_index_scan(info), order_terms,
                               OrderIndex(order_terms)))

\* select: the rows heap.scan finds in a table
TableRows(h) == ProcessRows(h, <<>>, NoWhere, HeapLocations(h, 1))

RECURSIVE JoinedWith(_, _, _, _)
\* select, the inner loop of a join: one left row against the right rows
JoinedWith(bindings, condition, left, rights) ==
    IF rights = <<>> THEN <<>>
    ELSE (IF ~condition.has \/ is_true(evaluate_predicate(bindings, condition.expr,
                                                          left \o Head(rights)))
          THEN <<left \o Head(rights)>>
          ELSE <<>>)
             \o JoinedWith(bindings, condition, left, Tail(rights))

RECURSIVE Joined(_, _, _, _)
\* select, the outer loop of a join
Joined(bindings, condition, lefts, rights) ==
    IF lefts = <<>> THEN <<>>
    ELSE JoinedWith(bindings, condition, Head(lefts), rights)
             \o Joined(bindings, condition, Tail(lefts), rights)

RECURSIVE JoinAll(_, _, _, _)
\* select, the loop over stmt.joins from join_idx on
JoinAll(h, stmt, combined_rows, join_idx) ==
    IF join_idx > Len(stmt.joins) \/ (join_idx > 1 /\ combined_rows = <<>>)
    THEN combined_rows
    ELSE JoinAll(h, stmt,
                 Joined(PrefixBindings(TablesOf(stmt), join_idx + 1),
                        stmt.joins[join_idx].condition, combined_rows, TableRows(h)),
                 join_idx + 1)

\* select, several tables: the joined rows the WHERE clause admits
JoinedRows(h, stmt) ==
    [status |-> "OK", sorted |-> FALSE,
     rows |-> SelectSeq(JoinAll(h, stmt, TableRows(h), 1),
                        LAMBDA row : \/ ~stmt.where.has
                                     \/ is_true(evaluate_predicate(FullBindings(stmt),
                                                                   stmt.where.expr, row)))]

\* build_projection: the positions of the selected columns, every column
\* for *
Projection(stmt) ==
    IF stmt.columns = <<>> THEN [n \in 1..Len(FullBindings(stmt)) |-> n]
    ELSE [n \in 1..Len(stmt.columns) |-> lookup_column(FullBindings(stmt), stmt.columns[n])]

\* the comparator when one of the two values is NULL and lv is the left one
NullFirst(lv) == lv.is_null

NonNullFirst(lv) == ~lv.is_null

RECURSIVE comparator(_, _, _)
\* select, the comparator of std::stable_sort: lhs goes before rhs
comparator(order_terms, lhs, rhs) ==
    IF order_terms = <<>> THEN FALSE
    ELSE IF lhs[Head(order_terms).value_index].is_null
                # rhs[Head(order_terms).value_index].is_null
    THEN NonNullFirst(lhs[Head(order_terms).value_index])
    ELSE IF compare(lhs[Head(order_terms).value_index],
                    rhs[Head(order_terms).value_index]) = "Less"
    THEN Head(order_terms).ascending
    ELSE IF compare(lhs[Head(order_terms).value_index],
                    rhs[Head(order_terms).value_index]) = "Greater"
    THEN ~Head(order_terms).ascending
    ELSE comparator(Tail(order_terms), lhs, rhs)

\* the place of a row among sorted rows: behind every row it does not go
\* before
PlaceOf(order_terms, sorted, row) ==
    FirstIn({n \in 1..Len(sorted) : comparator(order_terms, row, sorted[n])},
            Len(sorted) + 1)

InsertedAt(sorted, row, n) ==
    SubSeq(sorted, 1, n - 1) \o <<row>> \o SubSeq(sorted, n, Len(sorted))

RECURSIVE stable_sort(_, _, _)
\* std::stable_sort of the rows that follow sorted
stable_sort(order_terms, sorted, rows) ==
    IF rows = <<>> THEN sorted
    ELSE stable_sort(order_terms,
                     InsertedAt(sorted, Head(rows), PlaceOf(order_terms, sorted, Head(rows))),
                     Tail(rows))

\* Value::to_string of an INTEGER
RECURSIVE IntegerText(_)
IntegerText(n) ==
    IF n < 0 THEN "-" \o IntegerText(0 - n)
    ELSE IF n >= 10 THEN IntegerText(n \div 10) \o IntegerText(n % 10)
    ELSE <<"0", "1", "2", "3", "4", "5", "6", "7", "8", "9">>[n + 1]

to_string(value) == IF value.is_null THEN "NULL" ELSE IntegerText(value.halves \div 2)

\* value_signature: the type and the text
value_signature(value) == value.type \o "|" \o to_string(value)

\* the signature of every column of the row
row_signature_of_row(row, projection) == [n \in 1..Len(row) |-> value_signature(row[n])]

\* row_signature of the projected columns
row_signature(row, projection) ==
    [n \in 1..Len(projection) |-> value_signature(row[projection[n]])]

RECURSIVE Deduped(_, _, _)
\* select, DISTINCT: the rows whose signature was not seen before
Deduped(rows, projection, seen) ==
    IF rows = <<>> THEN <<>>
    ELSE IF row_signature(Head(rows), projection) \in seen
    THEN Deduped(Tail(rows), projection, seen)
    ELSE <<Head(rows)>>
             \o Deduped(Tail(rows), projection,
                        seen \cup {row_signature(Head(rows), projection)})

\* select, the last loop: the texts of the projected columns
OutRows(rows, projection) ==
    [r \in 1..Len(rows) |-> [n \in 1..Len(projection) |-> to_string(rows[r][projection[n]])]]

Limited(rows, limit) ==
    IF limit.has /\ limit.n >= 0 /\ Len(rows) > limit.n THEN SubSeq(rows, 1, limit.n)
    ELSE rows

\* select from ORDER BY on: sort unless the rows came sorted, DISTINCT, LIMIT
PostProcessed(stmt, f, order_terms, projection) ==
    IF f.status # "OK" THEN [status |-> f.status, rows |-> <<>>]
    ELSE IF stmt.limit.has /\ stmt.limit.n = 0 THEN [status |-> "OK", rows |-> <<>>]
    ELSE [status |-> "OK",
          rows |-> OutRows(
                       Limited(
                           IF stmt.distinct
                           THEN Deduped(IF order_terms # <<>> /\ ~f.sorted
                                        THEN stable_sort(order_terms, <<>>, f.rows)
                                        ELSE f.rows,
                                        projection, {})
                           ELSE IF order_terms # <<>> /\ ~f.sorted
                           THEN stable_sort(order_terms, <<>>, f.rows)
                           ELSE f.rows,
                           stmt.limit),
                       projection)]

\* DMLExecutor::select
select(h, ix, stmt) ==
    PostProcessed(stmt,
                  IF stmt.joins = <<>>
                  THEN SingleTableRows(h, ix, stmt, PredicateInfo(stmt.where),
                                       OrderTerms(stmt))
                  ELSE JoinedRows(h, stmt),
                  OrderTerms(stmt), Projection(stmt))

(***************************************************************************)
(* The table driven through INSERT, UPDATE, DELETE and SELECT statements.  *)
(*   done - the last statement: its kind and status, the row it was        *)
(*          working on last, whether predicate extraction reported a       *)
(*          contradiction, whether the table held a row its WHERE clause   *)
(*          admits when it started and, for SELECT, the statement and the  *)
(*          rows sent back; under SelectSpec also whether the statement    *)
(*          ran an index scan, the locations it selected and those a scan  *)
(*          of the heap would have selected                                *)
(***************************************************************************)
Column(name) == ColumnRef("", name)

Integer(n) == Literal(IntegerLiteral(n))

AEquals1 == Binary("EQUAL", Column("a"), Integer(1))

IdAtLeast2 == Binary("GREATER_EQUAL", Column("id"), Integer(2))

IdBelow1_5 == Binary("LESS", Column("id"), Literal(DoubleLiteral(3)))

\* a = 1, id >= 2, id < 1.5, a = NULL, a IS [NOT] NULL, a, NULL, 1 < id, a <> 1
\* and combinations of a = 1 and id >= 2 with NOT, AND and OR
Predicates ==
    {AEquals1, IdAtLeast2, IdBelow1_5,
     Binary("EQUAL", Column("a"), Literal(NullLiteral)),
     NullTest(Column("a"), FALSE), NullTest(Column("a"), TRUE),
     Column("a"), Literal(NullLiteral),
     Binary("LESS", Integer(1), Column("id")),
     Binary("NOT_EQUAL", Column("a"), Integer(1)),
     Not(AEquals1),
     Binary("AND", IdAtLeast2, AEquals1), Binary("OR", IdAtLeast2, AEquals1),
     Not(Binary("AND", IdAtLeast2, AEquals1)), Not(Binary("OR", IdAtLeast2, AEquals1))}

\* id = 1 AND id = 2, id > 2 AND id < 2, 2 <= id AND id < 2,
\* id >= 1 AND id < 1.5, id > 1 AND id < 3, and id = 1 AND id = 2 AND a IS NULL
Conjunctions ==
    {Binary("AND", Binary("EQUAL", Column("id"), Integer(1)),
                   Binary("EQUAL", Column("id"), Integer(2))),
     Binary("AND", Binary("GREATER", Column("id"), Integer(2)),
                   Binary("LESS", Column("id"), Integer(2))),
     Binary("AND", Binary("LESS_EQUAL", Integer(2), Column("id")),
                   Binary("LESS", Column("id"), Integer(2))),
     Binary("AND", Binary("GREATER_EQUAL", Column("id"), Integer(1)),
                   Binary("LESS", Column("id"), Literal(DoubleLiteral(3)))),
     Binary("AND", Binary("GREATER", Column("id"), Integer(1)),
                   Binary("LESS", Column("id"), Integer(3))),
     Binary("AND", Binary("AND", Binary("EQUAL", Column("id"), Integer(1)),
                                 Binary("EQUAL", Column("id"), Integer(2))),
                   NullTest(Column("a"), FALSE))}

Select(distinct, columns, where, order_by, limit) ==
    [distinct |-> distinct, columns |-> columns, from |-> TableRef("t", ""),
     joins |-> <<>>, where |-> where, order_by |-> order_by, limit |-> limit]

\* SELECT * FROM t WHERE p
WhereSelects ==
    {Select(FALSE, <<>>, Where(p), <<>>, NoLimit) : p \in Predicates \cup Conjunctions}

OrderBys ==
    {<<Asc("a")>>, <<Desc("a")>>, <<Desc("id")>>, <<Asc("a"), Asc("id")>>,
     <<Desc("a"), Desc("id")>>, <<Asc("a"), Desc("id")>>}

\* SELECT * | a | DISTINCT a FROM t ORDER BY ... [LIMIT 1], and
\* SELECT * FROM t [WHERE id >= 2 | a = 1] ORDER BY id DESC | a [LIMIT 0],
\* SELECT DISTINCT a FROM t ORDER BY a, id | a DESC LIMIT 2
OrderSelects ==
    {Select(d[1], d[2], NoWhere, o, l) :
        d \in {<<FALSE, <<>>>>, <<FALSE, <<Column("a")>>>>, <<TRUE, <<Column("a")>>>>},
        o \in OrderBys,
        l \in {NoLimit, Limit(1)}}
        \cup {Select(FALSE, <<>>, Where(IdAtLeast2), <<Desc("id")>>, NoLimit),
               Select(FALSE, <<>>, Where(AEquals1), <<Asc("a")>>, NoLimit),
               Select(FALSE, <<>>, Where(IdAtLeast2), <<Asc("a"), Asc("id")>>, NoLimit),
               Select(FALSE, <<>>, NoWhere, <<Desc("id")>>, Limit(0)),
               Select(TRUE, <<Column("a")>>, NoWhere, <<Asc("a"), Asc("id")>>, Limit(2)),
               Select(TRUE, <<Column("a")>>, NoWhere, <<Desc("a")>>, Limit(2))}

\* SELECT * FROM t AS l JOIN t AS r ON condition
JoinSelects ==
    {[distinct |-> FALSE, columns |-> <<>>, from |-> TableRef("t", "l"),
      joins |-> <<[table |-> TableRef("t", "r"), condition |-> Where(c)]>>,
      where |-> NoWhere, order_by |-> <<>>, limit |-> NoLimit] :
        c \in {Binary("EQUAL", ColumnRef("l", "a"), ColumnRef("r", "a")),
               Binary("LESS", ColumnRef("l", "id"), ColumnRef("r", "id")),
               Not(Binary("EQUAL", ColumnRef("l", "a"), ColumnRef("r", "a"))),
               Binary("OR", Binary("EQUAL", ColumnRef("l", "a"), ColumnRef("r", "a")),
                            Binary("EQUAL", ColumnRef("l", "id"), ColumnRef("r", "id")))}}

\* the rows a scan of the heap finds, in scan order
ScannedRows(h) == TableRows(h)

\* some row of the table is admitted by the WHERE clause
Admits(h, where) ==
    \E n \in 1..Len(ScannedRows(h)) :
        is_true(evaluate_predicate(SingleTableBindings("t"), where.expr, ScannedRows(h)[n]))

\* the statement runs an index scan: extraction found no contradiction and
\* choose_index_scan named an index
IndexScanChosen(where) ==
    /\ where.has
    /\ ~Contradiction(where)
    /\ choose_index_scan(PredicateInfo(where)).context_index # 0

\* the locations among locs whose row the WHERE clause selects
SelectedAmong(h, locs, where) ==
    {loc \in {locs[n] : n \in 1..Len(locs)} :
        /\ HeapRead(h, loc).ok
        /\ Matches(where, decode_row_values(HeapRead(h, loc).payload))}

\* the locations the statement selects: those of its candidates that pass the
\* WHERE clause, none when the scan failed
SelectedVia(h, where, c) ==
    IF c.status # "OK" THEN {} ELSE SelectedAmong(h, c.locs, where)

\* the statement is back with db
Answer(kind, db, where) ==
    /\ nstmts < MaxStmts
    /\ heap' = db.heap
    /\ indexes' = db.indexes
    /\ done' = [kind |-> kind, status |-> db.err, rid |-> db.rid, values |-> db.values,
                contradiction |-> Contradiction(where),
                admits |-> where.has /\ Admits(heap, where),
                stmt |-> <<>>, rows |-> <<>>,
                index_scan |-> IndexScanChosen(where),
                selected |-> IF IndexScanChosen(where)
                             THEN SelectedVia(heap, where, Candidates(heap, indexes, where))
                             ELSE {},
                by_scan |-> IF IndexScanChosen(where)
                            THEN SelectedAmong(heap, HeapLocations(heap, 1), where)
                            ELSE {}]
    /\ nstmts' = nstmts + 1
    /\ UNCHANGED treeVars
    /\ UNCHANGED ddlVars

RunInsert(rows) == Answer("INSERT", insert_into(heap, indexes, rows), NoWhere)

RunUpdate(assignment, where) ==
    Answer("UPDATE", update_all(heap, indexes, assignment.column, assignment.value, where),
           where)

RunDelete(where) == Answer("DELETE", delete_all(heap, indexes, where), where)

\* SELECT is back with r = [status, rows]
Selected(stmt, r) ==
    /\ nstmts < MaxStmts
    /\ done' = [kind |-> "SELECT", status |-> r.status, rid |-> NoRid, values |-> <<>>,
                contradiction |-> stmt.joins = <<>> /\ Contradiction(stmt.where),
                admits |-> stmt.joins = <<>> /\ stmt.where.has /\ Admits(heap, stmt.where),
                stmt |-> stmt, rows |-> r.rows,
                index_scan |-> stmt.joins = <<>> /\ IndexScanChosen(stmt.where),
                selected |-> {}, by_scan |-> {}]
    /\ nstmts' = nstmts + 1
    /\ UNCHANGED <<heap, indexes>>
    /\ UNCHANGED treeVars
    /\ UNCHANGED ddlVars

RunSelect(stmt) == Selected(stmt, select(heap, indexes, stmt))

\* the WHERE clauses of the UPDATE and DELETE statements
RunWhereClauses == WhereClauses \cup {Where(p) : p \in Conjunctions}

\* INSERT INTO t VALUES (...) and INSERT INTO t VALUES (1, ...), (2, ...)
RunInsertStatements ==
    {<<r>> : r \in InsertRowLiterals}
        \cup {<<r, q>> : r \in {r \in InsertRowLiterals : r[1] = Int32(1)},
                         q \in {q \in InsertRowLiterals : q[1] = Int32(2)}}

\* SET a = NULL and SET id = 3
RunAssignments == {[column |-> 2, value |-> Null], [column |-> 1, value |-> Int32(3)]}

SelectNext ==
    \/ \E rows \in RunInsertStatements : RunInsert(rows)
    \/ \E assignment \in RunAssignments, where \in RunWhereClauses :
           RunUpdate(assignment, where)
    \/ \E where \in RunWhereClauses : RunDelete(where)
    \/ \E stmt \in WhereSelects : RunSelect(stmt)
    \/ \E stmt \in OrderSelects : RunSelect(stmt)
    \/ \E stmt \in JoinSelects : RunSelect(stmt)

SelectInit ==
    /\ heap = EmptyHeap
    /\ indexes = EmptyIndexes
    /\ done = [kind |-> "none", status |-> "OK", rid |-> NoRid, values |-> <<>>,
               contradiction |-> FALSE, admits |-> FALSE, stmt |-> <<>>, rows |-> <<>>,
               index_scan |-> FALSE, selected |-> {}, by_scan |-> {}]
    /\ nstmts = 0
    /\ tree = NewTree(TRUE)
    /\ ref = [k \in Keys |-> <<>>]
    /\ last = NoCall
    /\ nops = 0
    /\ removed = FALSE
    /\ DdlStart

SelectSpec == SelectInit /\ [][SelectNext]_vars

(***************************************************************************)
(* Three-valued logic as a rank: False is 0, Unknown is 1 and True is 2,   *)
(* NOT is 2 - x, AND the minimum and OR the maximum.                       *)
(***************************************************************************)
Larger(a, b) == IF a > b THEN a ELSE b

\* the relation a comparison operator stands for, on two magnitudes
Related(binary_op, lhs, rhs) ==
    CASE binary_op = "EQUAL" -> lhs = rhs
      [] binary_op = "NOT_EQUAL" -> lhs # rhs
      [] binary_op = "LESS" -> lhs < rhs
      [] binary_op = "LESS_EQUAL" -> lhs <= rhs
      [] binary_op = "GREATER" -> lhs > rhs
      [] OTHER -> lhs >= rhs

\* a comparison of two operand values
RankCompared(binary_op, lhs, rhs) ==
    IF lhs.is_null \/ rhs.is_null THEN 1
    ELSE IF Related(binary_op, lhs.halves, rhs.halves) THEN 2
    ELSE 0

\* an operand value taken as a truth value
RankOf(value) == IF value.is_null THEN 1 ELSE IF value.halves = 0 THEN 0 ELSE 2

RECURSIVE Kleene(_, _, _)
\* the rank of a predicate on a row
Kleene(bindings, expression, row_values) ==
    IF expression.kind = "UNARY" THEN 2 - Kleene(bindings, expression.left, row_values)
    ELSE IF expression.kind = "NULL_TEST"
    THEN (IF evaluate_value(bindings, expression.left, row_values, NoHint).is_null
              = ~expression.is_not_null
          THEN 2 ELSE 0)
    ELSE IF expression.kind # "BINARY"
    THEN RankOf(evaluate_value(bindings, expression, row_values, NoHint))
    ELSE IF expression.binary_op = "AND"
    THEN Min(Kleene(bindings, expression.left, row_values),
             Kleene(bindings, expression.right, row_values))
    ELSE IF expression.binary_op = "OR"
    THEN Larger(Kleene(bindings, expression.left, row_values),
             Kleene(bindings, expression.right, row_values))
    ELSE RankCompared(expression.binary_op,
                      evaluate_value(bindings, expression.left, row_values, NoHint),
                      evaluate_value(bindings, expression.right, row_values, NoHint))

\* the rows of a list of locations that can be read
RowsAt(h, locs) == ProcessRows(h, <<>>, NoWhere, locs)

\* the rows a single-table SELECT hands to process_row: none after a
\* contradiction, else those of the candidate ids or of the heap scan
ExaminedRows(h, ix, stmt) ==
    IF Contradiction(stmt.where) THEN <<>>
    ELSE RowsAt(h, Candidates(h, ix, stmt.where).locs)

RECURSIVE Paired(_, _)
\* the rows of a join of two tables before its condition: every left row with
\* every right row
Paired(lefts, rights) ==
    IF lefts = <<>> THEN <<>>
    ELSE [n \in 1..Len(rights) |-> Head(lefts) \o rights[n]] \o Paired(Tail(lefts), rights)

\* the rows of a list whose predicate has rank True
OfRankTrue(bindings, expression, rows) ==
    SelectSeq(rows, LAMBDA row : Kleene(bindings, expression, row) = 2)

\* the last statement was SELECT * FROM t WHERE p
WhereSelected == done.kind = "SELECT" /\ done.status = "OK" /\ done.stmt \in WhereSelects

\* the last statement was SELECT * FROM t AS l JOIN t AS r ON c
JoinSelected == done.kind = "SELECT" /\ done.status = "OK" /\ done.stmt \in JoinSelects

OrderSelected == done.kind = "SELECT" /\ done.status = "OK" /\ done.stmt \in OrderSelects

\* the place of the first ORDER BY column in the rows sent back, 0 when it is
\* not selected
OrderColumnOut(stmt) ==
    FirstIn({n \in 1..Len(Projection(stmt)) :
                Projection(stmt)[n] = OrderTerms(stmt)[1].value_index}, 0)

\* in rows, no row with a NULL at place n comes before a row with a value
NullsLast(rows, n) ==
    \A i, j \in 1..Len(rows) : (i < j /\ rows[i][n] = "NULL") => rows[j][n] = "NULL"

\* in rows, no row with a value at place n comes before a row with a NULL
NullsFirst(rows, n) ==
    \A i, j \in 1..Len(rows) : (i < j /\ rows[j][n] = "NULL") => rows[i][n] = "NULL"

\* select ran std::stable_sort: the statement was not short-circuited and
\* the rows did not come sorted from an index
SortRan(h, ix, stmt) ==
    /\ ~(stmt.limit.has /\ stmt.limit.n = 0)
    /\ ~SingleTableRows(h, ix, stmt, PredicateInfo(stmt.where), OrderTerms(stmt)).sorted

\* C26 as stated: in ORDER BY output the rows whose (first) sort column is NULL
\* come before all rows with a value for an ASC term and after all of them for
\* a DESC term.
C26_NullsFirstAscLastDesc ==
    (OrderSelected /\ OrderColumnOut(done.stmt) # 0) =>
        IF done.stmt.order_by[1].ascending
        THEN NullsFirst(done.rows, OrderColumnOut(done.stmt))
        ELSE NullsLast(done.rows, OrderColumnOut(done.stmt))

\* C26: when SELECT sorts the rows itself, the rows whose first sort column
\* is NULL come after all rows with a value, for an ASC term and for a DESC
\* term alike.
C26_NullsLastWhenSorted ==
    (OrderSelected /\ OrderColumnOut(done.stmt) # 0 /\ SortRan(heap, indexes, done.stmt)) =>
        NullsLast(done.rows, OrderColumnOut(done.stmt))

\* SELECT * FROM t ORDER BY a, id on the rows (1, NULL) and (2, 1): the row
\* with the NULL is sent back last
C26_Witness ==
    /\ OrderSelected
    /\ done.stmt.order_by = <<Asc("a"), Asc("id")>>
    /\ SortRan(heap, indexes, done.stmt)
    /\ ScannedRows(heap) = <<<<Integer32(1), NullOf("INTEGER")>>, <<Integer32(2), Integer32(1)>>>>
    /\ done.rows = <<<<"2", "1">>, <<"1", "NULL">>>>

\* the rows of a single-table SELECT after ORDER BY: as the index scan
\* delivered them, or sorted
OrderedRows(order_terms, f) ==
    IF order_terms # <<>> /\ ~f.sorted THEN stable_sort(order_terms, <<>>, f.rows) ELSE f.rows

RECURSIVE FirstOccurrences(_, _)
\* the rows from place n on that are equal to no row before them
FirstOccurrences(rows, n) ==
    IF n > Len(rows) THEN <<>>
    ELSE (IF \E m \in 1..(n - 1) : rows[m] = rows[n] THEN <<>> ELSE <<rows[n]>>)
             \o FirstOccurrences(rows, n + 1)

\* the first limit.n rows
FirstRows(rows, limit) ==
    IF limit.has THEN SubSeq(rows, 1, Min(limit.n, Len(rows))) ELSE rows

\* the texts of the selected columns of the ordered rows, made distinct for
\* SELECT DISTINCT
DistinctOut(stmt, out) == IF stmt.distinct THEN FirstOccurrences(out, 1) ELSE out

\* C27: the rows SELECT sends back are the first n (LIMIT n; all without
\* LIMIT, none for n = 0) of the selected columns of the ordered rows, made
\* distinct on the selected columns alone for SELECT DISTINCT.
C27_OrderDistinctLimit ==
    OrderSelected =>
        done.rows =
            FirstRows(DistinctOut(done.stmt,
                                  OutRows(OrderedRows(OrderTerms(done.stmt),
                                                      SingleTableRows(heap, indexes, done.stmt,
                                                                      PredicateInfo(done.stmt.where),
                                                                      OrderTerms(done.stmt))),
                                          Projection(done.stmt))),
                      done.stmt.limit)

\* SELECT DISTINCT a FROM t ORDER BY a, id LIMIT 2 on the rows (1, 1), (2, 1)
\* and (3, NULL): the two rows with a = 1 count once, and NULL is sent back too
C27_Witness ==
    /\ OrderSelected
    /\ done.stmt.distinct
    /\ done.stmt.order_by = <<Asc("a"), Asc("id")>>
    /\ done.stmt.limit = Limit(2)
    /\ OutRows(ScannedRows(heap), <<1, 2>>) = <<<<"1", "1">>, <<"2", "1">>, <<"3", "NULL">>>>
    /\ done.rows = <<<<"1">>, <<"NULL">>>>

\* the rows of a single-table SELECT before ORDER BY, and whether they came
\* in final order from an index scan
AccessPathRows(h, ix, stmt) ==
    SingleTableRows(h, ix, stmt, PredicateInfo(stmt.where), OrderTerms(stmt))

\* what the sort path makes of the table: the rows of the heap scan that the
\* WHERE clause admits, sorted
SortPathRows(h, stmt) ==
    stable_sort(OrderTerms(stmt), <<>>,
                ProcessRows(h, FullBindings(stmt), stmt.where, HeapLocations(h, 1)))

\* how often a row is in a list
Occurrences(rows, row) == Cardinality({n \in 1..Len(rows) : rows[n] = row})

\* the same rows, each as often
SameRows(lhs, rhs) ==
    /\ Len(lhs) = Len(rhs)
    /\ \A n \in 1..Len(lhs) : Occurrences(lhs, lhs[n]) = Occurrences(rhs, lhs[n])

\* the values of the ORDER BY columns, row after row
OrderKeys(order_terms, rows) ==
    [r \in 1..Len(rows) |->
        [n \in 1..Len(order_terms) |-> rows[r][order_terms[n].value_index]]]

\* C28: when SELECT skips the sort because an index scan delivered the rows,
\* the rows are those the sort path would have produced, and their ORDER BY
\* columns are in the sequence the sort would have put them in.
C28_IndexOrderIsSortOrder ==
    (OrderSelected /\ ~Contradiction(done.stmt.where)
        /\ AccessPathRows(heap, indexes, done.stmt).sorted) =>
        /\ SameRows(AccessPathRows(heap, indexes, done.stmt).rows,
                    SortPathRows(heap, done.stmt))
        /\ OrderKeys(OrderTerms(done.stmt), AccessPathRows(heap, indexes, done.stmt).rows)
               = OrderKeys(OrderTerms(done.stmt), SortPathRows(heap, done.stmt))

\* C29: whenever predicate extraction reports a contradiction, and the SELECT,
\* UPDATE or DELETE statement is short-circuited to zero rows, no row the
\* table held when the statement started satisfies its WHERE clause.
C29_ContradictionAdmitsNoRow ==
    (done.kind \in {"SELECT", "UPDATE", "DELETE"} /\ done.contradiction) => ~done.admits

(***************************************************************************)
(* Index scans against heap scans, key order against value order, and what *)
(* a failed operation leaves behind.                                       *)
(***************************************************************************)
\* the rows SELECT * FROM t WHERE p sends back when it scans the heap
HeapScanRows(h, stmt) ==
    OutRows(ProcessRows(h, FullBindings(stmt), stmt.where, HeapLocations(h, 1)),
            Projection(stmt))

\* C31: a single-table SELECT, UPDATE or DELETE with a WHERE clause that runs
\* an index scan selects the rows a sequential scan of the heap would select:
\* the locations an UPDATE or a DELETE selected are those the heap scan
\* selects, and the rows SELECT * FROM t WHERE p sent back are the rows of
\* the heap scan, each as often.
C31_IndexScanSelectsScanRows ==
    /\ (done.kind \in {"UPDATE", "DELETE"} /\ done.index_scan) =>
           done.selected = done.by_scan
    /\ (WhereSelected /\ done.index_scan) =>
           SameRows(done.rows, HeapScanRows(heap, done.stmt))

(***************************************************************************)
(* The order of index keys: pairs of INTEGER values are encoded as index   *)
(* keys and compared as BPlusTree compares them.                           *)
(*   done - the two values and, once compared, the sign CompareKeys found  *)
(*          on their keys and the order compare() found on the values      *)
(***************************************************************************)
\* the INTEGER values compared: both signs, and magnitudes on either side
\* of a byte boundary of the payload
KeyIntegers == {0 - 65536, 0 - 256, 0 - 2, 0 - 1, 0, 1, 2, 255, 256, 257, 65536}

\* the index key of a non-NULL value of an INTEGER column
KeyOf(n) == encode_values(<<Int32(n)>>)

\* the sign CompareKeys would have to return for an order of compare()
SignOf(order) == IF order = "Less" THEN 0 - 1 ELSE IF order = "Greater" THEN 1 ELSE 0

\* the keys of the two values are compared and so are the values
CompareEncoded ==
    /\ done.kind = "values"
    /\ done' = [done EXCEPT !.kind = "compared",
                            !.key_order = CompareKeys(KeyOf(done.lhs), KeyOf(done.rhs)),
                            !.value_order = compare(Integer32(done.lhs), Integer32(done.rhs))]
    /\ UNCHANGED <<heap, indexes, nstmts>>
    /\ UNCHANGED treeVars
    /\ UNCHANGED ddlVars

KeyNext == CompareEncoded

KeyInit ==
    /\ heap = EmptyHeap
    /\ indexes = EmptyIndexes
    /\ \E lhs \in KeyIntegers, rhs \in KeyIntegers :
           done = [kind |-> "values", lhs |-> lhs, rhs |-> rhs,
                   key_order |-> 0, value_order |-> "Equal"]
    /\ nstmts = 0
    /\ tree = NewTree(TRUE)
    /\ ref = [k \in Keys |-> <<>>]
    /\ last = NoCall
    /\ nops = 0
    /\ removed = FALSE
    /\ DdlStart

KeySpec == KeyInit /\ [][KeyNext]_vars

\* C32: for two non-NULL values of an indexed INTEGER column, the comparison
\* of their encoded index keys (memcmp over the common prefix, then the
\* lengths) has the sign of compare() on the values.
C32_KeyOrderIsValueOrder ==
    done.kind = "compared" => done.key_order = SignOf(done.value_order)

\* the last statement was a successful CREATE INDEX on a table that held rows
IndexCreatedOverRows ==
    /\ ddl.kind = "CREATE INDEX"
    /\ ddl.status = "OK"
    /\ ddl.before.rows # <<>>

\* C33: immediately after a successful CREATE INDEX on a table that already
\* holds rows, the tree of the new index contains the (key, record_id) pair
\* of every live row of the table.
C33_CreateIndexHoldsRows ==
    IndexCreatedOverRows => IndexHolds(TableNow, get_index(Now, ddl.stmt.index_name))

\* the tree of an index created over rows is empty
CreatedIndexEmpty ==
    IndexCreatedOverRows => TreePairs(trees[get_index(Now, ddl.stmt.index_name).index_id]) = {}

(***************************************************************************)
(* The table driven through INSERT and TRUNCATE statements.                *)
(*   done - the last statement: its kind and status, the rows of an INSERT,*)
(*          the kind of the statement before it and the rows that          *)
(*          statement removed when it was a TRUNCATE                       *)
(***************************************************************************)
\* TableHeap::truncate: the root page is reset to hold no slot and the pages
\* after it are cut off the chain
HeapTruncate(h) == SubSeq([h EXCEPT ![1] = <<>>], 1, 1)

\* DMLExecutor::truncate: the heap of the table is truncated, its indexes are
\* not opened
truncate(h, ix) == [Begin(h, ix) EXCEPT !.heap = HeapTruncate(h)]

\* the statement is back with db
TruncateFinish(kind, db, rows) ==
    /\ nstmts < MaxStmts
    /\ heap' = db.heap
    /\ indexes' = db.indexes
    /\ done' = [kind |-> kind, status |-> db.err, rid |-> db.rid, values |-> db.values,
                rows |-> rows, prev |-> done.kind,
                removed |-> IF kind = "TRUNCATE" THEN {r.values : r \in LiveRows(heap)}
                            ELSE IF done.kind = "TRUNCATE" THEN done.removed
                            ELSE {}]
    /\ nstmts' = nstmts + 1
    /\ UNCHANGED treeVars
    /\ UNCHANGED ddlVars

TruncateInsert(rows) == TruncateFinish("INSERT", insert_into(heap, indexes, rows), rows)

TruncateTable == TruncateFinish("TRUNCATE", truncate(heap, indexes), <<>>)

TruncateNext ==
    \/ \E rows \in RunInsertStatements : TruncateInsert(rows)
    \/ TruncateTable

TruncateInit ==
    /\ heap = EmptyHeap
    /\ indexes = EmptyIndexes
    /\ done = [kind |-> "none", status |-> "OK", rid |-> NoRid, values |-> <<>>,
               rows |-> <<>>, prev |-> "none", removed |-> {}]
    /\ nstmts = 0
    /\ tree = NewTree(TRUE)
    /\ ref = [k \in Keys |-> <<>>]
    /\ last = NoCall
    /\ nops = 0
    /\ removed = FALSE
    /\ DdlStart

TruncateSpec == TruncateInit /\ [][TruncateNext]_vars

\* the rows of an INSERT have primary keys that are not NULL and differ from
\* row to row
KeysDistinct(rows) ==
    /\ \A n \in 1..Len(rows) : ~rows[n][1].is_null
    /\ \A m, n \in 1..Len(rows) : rows[m][1] = rows[n][1] => m = n

\* the last statement was an INSERT right after a TRUNCATE, with a row whose
\* primary key is that of a row the TRUNCATE removed
ReinsertedAfterTruncate ==
    /\ done.kind = "INSERT"
    /\ done.prev = "TRUNCATE"
    /\ KeysDistinct(done.rows)
    /\ \E n \in 1..Len(done.rows) : \E r \in done.removed : r[1] = done.rows[n][1]

\* C34: after TRUNCATE TABLE t, an INSERT of a row whose primary-key value is
\* that of a row the TRUNCATE removed succeeds.
C34_ReinsertAfterTruncate == ReinsertedAfterTruncate => done.status = "OK"

(***************************************************************************)
(* Tables with a UNIQUE column, filled and emptied.                        *)
(***************************************************************************)
\* CREATE TABLE t (x INTEGER PRIMARY KEY, y INTEGER UNIQUE) and
\* CREATE TABLE t (x INTEGER, y INTEGER UNIQUE)
UniqueTableStatements ==
    {[table_name |-> t, columns |-> c] :
        t \in TableNames,
        c \in {<<PrimaryKey("x"), Unique("y")>>, <<Plain("x"), Unique("y")>>}}

UniqueNext ==
    \/ \E stmt \in UniqueTableStatements : CreateTable(stmt)
    \/ \E t \in TableNames, n \in 1..MaxRows : InsertRowsInto(t, n)
    \/ \E t \in TableNames : DeleteFrom(t)

UniqueSpec == DdlInit /\ [][UniqueNext]_vars

\* no two rows of the table have the same non-NULL value in a column that is
\* UNIQUE and not PRIMARY KEY
UniqueColumnsDistinct(t) ==
    \A c \in 1..Len(t.columns) :
        (t.columns[c].unique /\ ~t.columns[c].primary_key) =>
            \A m, n \in 1..Len(t.rows) :
                (m # n /\ ~t.rows[m][c].is_null) => t.rows[m][c] # t.rows[n][c]

\* C35: for a column declared UNIQUE in CREATE TABLE (and not PRIMARY KEY), no
\* sequence of INSERT statements leaves two live rows with equal non-NULL
\* values in that column.
C35_UniqueColumnEnforced ==
    \A name \in TableNames :
        table_exists(Now, name) => UniqueColumnsDistinct(Snapshot(Now, name))

\* the step is an INSERT statement that was rejected
InsertRejected == nstmts' = nstmts + 1 /\ done'.kind = "INSERT" /\ done'.status # "OK"

\* the step adds no live row to the heap and no pair to an index
NothingAdded ==
    /\ LiveRows(heap') \subseteq LiveRows(heap)
    /\ \A i \in 1..Len(IndexCatalog) : TreePairs(indexes'[i]) \subseteq TreePairs(indexes[i])

\* C36: an INSERT of one or several rows is all-or-nothing: when a row of the
\* statement is rejected (NOT NULL violation or DUPLICATE_KEY), none of the
\* statement's rows is in the heap or in an index afterwards.
C36_InsertAllOrNothing == [][InsertRejected => NothingAdded]_vars


\* the step is a call of Insert that failed
InsertFailed == last'.op = "Insert" /\ last'.status # "OK"

\* after the step, Search finds the key of every pair the tree held before
\* it, and ScanRange over that key returns the pair's value
PairsStillFound ==
    \A pr \in TreePairs(tree) :
        /\ Search(tree', pr[1]).status = "OK"
        /\ Search(tree', pr[1]).found
        /\ ScanEqual(tree', pr[1]).status = "OK"
        /\ SeqHas(ScanEqual(tree', pr[1]).values, pr[2])

\* C37: when BPlusTree::Insert fails, every (key, value) pair that was in the
\* tree before the call is still returned by Search and ScanRange afterwards.
C37_FailedInsertKeepsPairs == [][InsertFailed => PairsStillFound]_vars

\* an Insert into a tree with every page intact that fails with DUPLICATE_KEY
\* keeps every pair
DuplicateKeyKeepsPairs ==
    [][(InsertFailed /\ last'.status = "DUPLICATE_KEY" /\ Intact(tree)) => PairsStillFound]_vars

(***************************************************************************)
(* A table heap driven through insert, update and erase.                   *)
(*   done - the last call: its operation, location, payload and status     *)
(*          and what read answered for the location before the call        *)
(***************************************************************************)
\* number of calls explored on one heap
MaxHeapCalls == 4

\* payloads of 1 and of 4 bytes, one of 20 bytes (two fill a page) and one
\* that does not fit an empty page
Payloads ==
    {<<7>>, <<8, 8, 8, 8>>, [i \in 1..20 |-> 9], [i \in 1..HEAP_BODY_BYTES |-> 5]}

\* the locations handed to update and erase: the slots of the heap and one
\* slot past the last of each page
CallLocations(h) ==
    {[page_id |-> p, slot |-> n] : p \in 1..Len(h), n \in 0..2}

\* the call is back with r = [heap, loc, err]
HeapCalled(op, loc, payload, r) ==
    /\ nstmts < MaxHeapCalls
    /\ heap' = r.heap
    /\ done' = [op |-> op, loc |-> loc, payload |-> payload, status |-> r.err,
                new_loc |-> r.loc, before |-> HeapRead(heap, loc)]
    /\ nstmts' = nstmts + 1
    /\ UNCHANGED indexes
    /\ UNCHANGED treeVars
    /\ UNCHANGED ddlVars

HeapInsertCall(payload) ==
    HeapCalled("insert", [page_id |-> 0, slot |-> 0], payload, HeapInsert(heap, payload))

HeapUpdateCall(loc, payload) == HeapCalled("update", loc, payload, HeapUpdate(heap, loc, payload))

\* TableHeap::erase as a call: [heap, loc, err]
EraseResult(loc, e) ==
    [heap |-> e.heap, loc |-> loc, err |-> IF e.ok THEN "OK" ELSE "RECORD_NOT_FOUND"]

HeapEraseCall(loc) == HeapCalled("erase", loc, <<>>, EraseResult(loc, HeapErase(heap, loc)))

HeapNext ==
    \/ \E payload \in Payloads : HeapInsertCall(payload)
    \/ \E loc \in CallLocations(heap), payload \in Payloads : HeapUpdateCall(loc, payload)
    \/ \E loc \in CallLocations(heap) : HeapEraseCall(loc)

HeapInit ==
    /\ heap = EmptyHeap
    /\ indexes = EmptyIndexes
    /\ done = [op |-> "none", loc |-> [page_id |-> 0, slot |-> 0], payload |-> <<>>,
               status |-> "OK", new_loc |-> [page_id |-> 0, slot |-> 0],
               before |-> [ok |-> FALSE, payload |-> <<>>]]
    /\ nstmts = 0
    /\ tree = NewTree(TRUE)
    /\ ref = [k \in Keys |-> <<>>]
    /\ last = NoCall
    /\ nops = 0
    /\ removed = FALSE
    /\ DdlStart

HeapSpec == HeapInit /\ [][HeapNext]_vars

\* the last call was an update of a live row that failed
UpdateFailed == done.op = "update" /\ done.status # "OK" /\ done.before.ok

\* C38: when TableHeap::update fails, the row's previous payload is still
\* readable at its original location.
C38_FailedUpdateKeepsPayload == UpdateFailed => HeapRead(heap, done.loc) = done.before

\* an update whose payload fits an empty page does not fail on a live row
UpdateOfFittingPayloadSucceeds ==
    (done.op = "update" /\ done.before.ok /\ Len(done.payload) < HEAP_BODY_BYTES)
        => done.status = "OK"

\* the last statement was an ALTER TABLE ADD COLUMN or DROP COLUMN that failed
AlterFailed == ddl.kind \in {"ADD COLUMN", "DROP COLUMN"} /\ ddl.status # "OK"

\* the pages that were taken from new_page during the last statement and
\* are not back on the free list
PagesKept == InUse(pm) \ ddl.in_use

\* C39: when ALTER TABLE ADD COLUMN or DROP COLUMN fails, every page
\* allocated for the new heap during the statement is back on the free list
\* (the heap is the only taker of pages in these statements).
C39_FailedAlterFreesNewHeap == AlterFailed => PagesKept = {}


\* load_tables_cache on a manager that has loaded nothing: the rows of the
\* tables page, in slot order
FreshTables(s) == SlotsOf(s, TABLES_ROOT)

\* load_indexes_cache on a manager that has loaded nothing: the rows of the
\* indexes page, sorted by table and name
FreshIndexes(s) == SortSeq(SlotsOf(s, INDEXES_ROOT), index_entry_less)

\* C40: after every statement, successful or failed, and so after the catalog
\* operations it called, the cached tables and the cached indexes are what
\* a fresh load from the catalog pages would produce.
C40_CachesEqualFreshLoad ==
    /\ catalog.tables_cache = FreshTables(Now)
    /\ catalog.indexes_cache = FreshIndexes(Now)

\* a statement failed on a catalog of two tables and three indexes, one of
\* them created after the primary-key index of the other table
C40_Witness ==
    /\ ddl.status # "OK"
    /\ Len(catalog.tables_cache) = 2
    /\ Len(catalog.indexes_cache) = 3
    /\ catalog.indexes_cache[1].table_id = catalog.indexes_cache[2].table_id
    /\ catalog.indexes_cache[2].index_id > catalog.indexes_cache[3].index_id
    /\ catalog.tables_cache = FreshTables(Now)
    /\ catalog.indexes_cache = FreshIndexes(Now)

====
